---- MODULE Spec2Model ----
(***************************************************************************)
(* Model of the stock-intelligence backend: the quota ledger               *)
(* (api_rate_limits), the provider client (AlphaVantageClient), the three  *)
(* sync orchestrators (syncStockDataJob, TriggerManualSync, SyncBatch) and *)
(* the pending-stock selector (GetPendingStocksForSync).                   *)
(***************************************************************************)
EXTENDS Integers, Sequences, FiniteSets, TLC

\* ------------------------------------------------------------------ bounds
MaxDay == 1            \* calendar dates are 0..MaxDay
HoursPerDay == 2       \* wall-clock hours of one date are 0..HoursPerDay-1
MaxDailyLimit == 2     \* daily_limit of the ledger row is 1..MaxDailyLimit
MaxCalls == 2          \* physical provider calls in one behaviour
MaxBatch == 2          \* largest maxStocks passed to SyncBatch
MaxLimit == 3          \* largest limit passed to GetPendingStocks
MaxPrice == 2          \* a provider series carries one of the prices 1..MaxPrice
MaxHandlers == 4       \* HandleWebSocket invocations in progress at once
ReadDeadline == 2      \* clock steps in the 60-second read deadline
MaxEntries == 2        \* sync entries the cron may hold (Start calls that add one)

\* ------------------------------------------------------- program constants
MinHistoryRows == 30   \* HAVING COUNT(dp.date) < 30
maxConnections == 3    \* websocket.go: const maxConnections = 3
SeriesLen == 30        \* rows of one provider series ("outputsize": "full")

NULL == -1             \* SQL NULL of an integer column
Nil == <<>>            \* a nil pointer / absent value
Some(x) == <<x>>

Min(a, b) == IF a < b THEN a ELSE b

\* Symbols in alphabetical order; AAPL and MSFT are in GetTop500SP500Stocks,
\* ZETA is not.
SymbolOrder == <<"AAPL", "MSFT", "ZETA">>
Rank(s) == CHOOSE i \in 1..Len(SymbolOrder) : SymbolOrder[i] = s

\* Market caps are in units of 10^9 (order preserving).
GetTop500SP500Stocks == [AAPL |-> 3000, MSFT |-> 2800]

Callers == {"job", "manual", "batch"}

VARIABLES
    today, hour,          \* CURRENT_DATE, EXTRACT(HOUR FROM CURRENT_TIMESTAMP)
    syncDue, resetDue,    \* cron entries "0 0 * * * *" that fired and have not run yet
    rowPresent,           \* the 'alphavantage' row of api_rate_limits exists
    api_rate_limits,      \* that row
    api_calls,            \* number of rows of the api_calls table
    providerCalls,        \* physical provider calls, per calendar date
    stocks,               \* stocks table: symbol -> market_cap, is_active
    daily_prices,         \* daily_prices table: symbol -> (stored date -> close_price)
    pc,                   \* position of each caller
    loc,                  \* locals of each caller's FetchDailyData in progress
    batch,                \* locals of SyncBatch
    inv,                  \* provider calls made by each caller's invocation in progress
    returned,             \* the return of an invocation, in the state that follows it
    logged,               \* what LogAPICall did, in the state that follows its end
    saved,                \* what SaveHistoricalData did, in the state that follows it
    recorded,             \* updateRateLimit statements executed on the row
    sequenceClean,        \* no date rollover and no reset-job write since Init
    selLimit, selOut,     \* GetPendingStocks: the limit and the sequence last returned
    cache,                \* Redis: the entries "stocks:all" and "stocks:sector:<sector>"
    reader,               \* position and locals of each read request in progress
    clients,              \* WebSocketHandler.clients: the registered connections
    handler,              \* position of each HandleWebSocket invocation
    conns,                \* each invocation's connection: open, first data message
    response,             \* the HTTP response of a rejected attempt, in the state after it
    pass,                 \* what a broadcast pass did, in the state that follows it
    unregistered,         \* what a read loop's unregister did, in the state after it
    exited,               \* the process has exited (os.Exit in the signal goroutine)
    cacheUp,              \* a Redis handle exists and Redis answers
    prioritized,          \* DataFetcher.getPrioritizedStocks: the sequence last returned
    body,                 \* the provider's answer to the last makeRequest examined
    fetched,              \* what FetchDailyData returned for that answer
    clientsMutex,         \* WebSocketHandler.clientsMutex: the goroutine holding the write lock
    bcast,                \* locals of the broadcastToClients pass in progress
    writing,              \* per connection, the goroutines inside a Write call on it
    pinger,               \* per connection, its ping goroutine and its pingTicker
    mu,                   \* SchedulerService.mu: the goroutines holding the read lock
    status,               \* position of the GetStatus request in progress
    cancelled,            \* SchedulerService.ctx has been cancelled
    schema_migrations,    \* schema_migrations table: the versions recorded as applied
    seed,                 \* position and locals of the seeder's main
    isRunning,            \* SchedulerService.isRunning
    entries,              \* entries of the cron that run syncStockDataJob
    due,                  \* further job goroutines the last tick started that have not run yet
    lastDataSync,         \* SchedulerService.lastDataSync, 0 for the zero time
    committed,            \* migration files whose SQL was committed, in commit order
    up                    \* position and locals of Migrator.Up

vars == <<today, hour, syncDue, resetDue, rowPresent, api_rate_limits, api_calls,
          providerCalls, stocks, daily_prices, pc, loc, batch, inv, returned,
          logged, saved, recorded, sequenceClean, selLimit, selOut,
          cache, reader, clients, handler, conns, response, pass, unregistered,
          exited, cacheUp, prioritized, body, fetched,
          clientsMutex, bcast, writing, pinger, mu, status, cancelled,
          schema_migrations, seed, isRunning, entries, due, lastDataSync,
          committed, up>>

\* time.Now(), in hours since the service started, from 1.
Now == 1 + today * HoursPerDay + hour

clockVars == <<today, hour, syncDue, resetDue>>
ledgerVars == <<rowPresent, api_rate_limits, recorded, sequenceClean>>
storeVars == <<stocks, daily_prices>>

\* The symbols of the stocks table.
Symbols == DOMAIN stocks
selVars == <<selLimit, selOut, prioritized>>
connVars == <<clientsMutex, bcast, writing, pinger, mu, status>>
schedVars == <<cancelled, isRunning, entries, due, lastDataSync>>
migVars == <<schema_migrations, committed, up>>
seedVars == <<seed>>
auxVars == <<connVars, schedVars, migVars, seedVars>>
envVars == <<exited, cacheUp, body, fetched, auxVars>>
cacheVars == <<cache, reader>>
hubVars == <<clients, handler, conns, response, pass, unregistered>>

\* ------------------------------------------------------------ quota ledger

\* models.APIRateLimit.CanMakeRequest: the in-memory predicate on the row read.
APIRateLimit_CanMakeRequest(rl) ==
    /\ rl.current_daily_count < rl.daily_limit
    /\ (rl.hourly_limit = NULL \/ rl.current_hourly_count < rl.hourly_limit)

\* The trigger, were it to zero the daily count on an hour change too.
update_api_rate_limit_HourZeroesDay(new, d, h) ==
    IF new.last_reset_date < d \/ new.last_reset_hour < h
    THEN [new EXCEPT !.current_daily_count = 0,
                     !.current_hourly_count = 0,
                     !.last_reset_date = d,
                     !.last_reset_hour = h]
    ELSE new

\* The BEFORE UPDATE trigger, applied to the new row of every UPDATE.
update_api_rate_limit(new, d, h) ==
    IF new.last_reset_date < d
    THEN [new EXCEPT !.current_daily_count = 0,
                     !.current_hourly_count = 0,
                     !.last_reset_date = d,
                     !.last_reset_hour = h]
    ELSE IF new.last_reset_hour < h
    THEN [new EXCEPT !.current_hourly_count = 0,
                     !.last_reset_hour = h]
    ELSE new

\* The UPDATE of updateRateLimit, trigger included: the row after it.
updateRateLimit(rl, d, h) ==
    update_api_rate_limit(
        [rl EXCEPT !.current_daily_count = rl.current_daily_count + 1,
                   !.current_hourly_count = rl.current_hourly_count + 1],
        d, h)

\* The WHERE clause of resetRateLimitsJob.
ResetDue(rl, d, h) ==
    \/ rl.last_reset_date < d
    \/ (rl.last_reset_date = d /\ rl.last_reset_hour < h)

\* The UPDATE of resetRateLimitsJob, trigger included: the row after it.
resetRateLimits(rl, d, h) ==
    IF ResetDue(rl, d, h)
    THEN update_api_rate_limit(
             [rl EXCEPT !.current_daily_count = 0,
                        !.current_hourly_count = 0,
                        !.last_reset_date = d,
                        !.last_reset_hour = h],
             d, h)
    ELSE rl

\* CanMakeRequest, were it to allow the request when the row cannot be read.
CanMakeRequest_FailOpen(outcome) ==
    IF outcome # "ok" \/ ~rowPresent
    THEN [canMake |-> TRUE, err |-> FALSE]
    ELSE [canMake |-> APIRateLimit_CanMakeRequest(api_rate_limits), err |-> FALSE]

\* AlphaVantageClient.CanMakeRequest: outcome is what the SELECT did.
CanMakeRequest(outcome) ==
    IF outcome # "ok" \/ ~rowPresent
    THEN [canMake |-> FALSE, err |-> TRUE]
    ELSE [canMake |-> APIRateLimit_CanMakeRequest(api_rate_limits), err |-> FALSE]

\* AlphaVantageClient.GetRateLimit.
GetRateLimit(outcome) ==
    IF outcome # "ok" \/ ~rowPresent
    THEN [rateLimit |-> Nil, err |-> TRUE]
    ELSE [rateLimit |-> Some(api_rate_limits), err |-> FALSE]

ReadOutcomes == {"ok", "error"}


\* ---------------------------------------------------------------- selectors

price_count(s) == Cardinality(DOMAIN daily_prices[s])

\* WHERE s.is_active = true ... HAVING COUNT(dp.date) < 30
PendingRows == {s \in Symbols : stocks[s].is_active /\ price_count(s) < MinHistoryRows}

\* ORDER BY s.market_cap DESC: row a may stand before row b. PostgreSQL puts
\* NULL first under DESC; rows of equal market_cap come in any order.
CapBefore(a, b) ==
    \/ stocks[a].market_cap = NULL
    \/ (stocks[b].market_cap # NULL /\ stocks[a].market_cap >= stocks[b].market_cap)

\* The row sequences the query of GetPendingStocksForSync may return under LIMIT.
QueryRows(limit) ==
    LET n == Min(limit, Cardinality(PendingRows))
    IN {q \in [1..n -> PendingRows] :
          /\ \A i, j \in 1..n : i < j => (q[i] # q[j] /\ CapBefore(q[i], q[j]))
          /\ \A s \in PendingRows \ {q[i] : i \in 1..n} :
                \A i \in 1..n : CapBefore(q[i], s)}

\* rows.Scan into an int64 fails on a NULL market_cap: the row is skipped.
Scannable(s) == stocks[s].market_cap # NULL

\* SP500PriorityService.GetPendingStocksForSync: the sequences it may return.
GetPendingStocksForSync(limit) ==
    {SelectSeq(q, Scannable) : q \in QueryRows(limit)}

MaxDate(s) ==
    IF DOMAIN daily_prices[s] = {} THEN NULL
    ELSE CHOOSE d \in DOMAIN daily_prices[s] : \A e \in DOMAIN daily_prices[s] : e <= d

\* ORDER BY MAX(dp.date) ASC NULLS FIRST, s.symbol
NextBefore(a, b) ==
    \/ (MaxDate(a) = NULL /\ MaxDate(b) # NULL)
    \/ (MaxDate(a) # NULL /\ MaxDate(b) # NULL /\ MaxDate(a) < MaxDate(b))
    \/ (MaxDate(a) = MaxDate(b) /\ Rank(a) < Rank(b))

\* SchedulerService.getNextStockToSync: "" when there is no active stock.
getNextStockToSync ==
    LET active == {s \in Symbols : stocks[s].is_active}
    IN IF active = {} THEN ""
       ELSE CHOOSE s \in active : \A t \in active \ {s} : NextBefore(s, t)

\* ------------------------------------------------------------ history store

Series == 1..SeriesLen

\* The sets of rows whose stmt.Exec fails in one SaveHistoricalData call.
FailedRowSets == {{}, {SeriesLen}, Series}

\* The prices a provider series may carry in each of its rows.
Prices == 1..MaxPrice

\* INSERT ... ON CONFLICT (stock_id, date) DO UPDATE for the rows of dates
\* `written`, each with close_price `data`: the table of one stock after it.
Upsert(rows, written, data) ==
    [d \in (DOMAIN rows) \cup written |-> IF d \in written THEN data ELSE rows[d]]

\* result.RowsAffected() of the upsert: PostgreSQL reports one affected row for
\* the inserted row and for the row updated on conflict alike.
RowsAffected(existed) == 1

\* AlphaVantageClient.SaveHistoricalData: err when the stock id lookup or the
\* Prepare fails; a row whose Exec fails is logged and skipped, the others are
\* counted as inserted when RowsAffected() > 0 and as updated otherwise.
SaveHistoricalData(symbol, data, lookup, failed) ==
    IF symbol \notin Symbols \/ lookup # "ok"
    THEN [err |-> TRUE, prices |-> daily_prices, inserted |-> 0, updated |-> 0]
    ELSE LET written == Series \ failed
             old == DOMAIN daily_prices[symbol]
         IN [err |-> FALSE,
             prices |-> [daily_prices EXCEPT ![symbol] = Upsert(@, written, data)],
             inserted |-> Cardinality({d \in written : RowsAffected(d \in old) > 0}),
             updated |-> Cardinality({d \in written : ~(RowsAffected(d \in old) > 0)})]

\* SP500PriorityService.UpdateStockWithPriority
UpdateStockWithPriority(tbl, symbol) ==
    IF symbol \in DOMAIN GetTop500SP500Stocks
    THEN [tbl EXCEPT ![symbol].market_cap = GetTop500SP500Stocks[symbol]]
    ELSE tbl

\* HistoricalDataSyncService.updateStockDataStatus, on the prices just saved.
updateStockDataStatus(tbl, prices, symbol) ==
    [tbl EXCEPT ![symbol].has_sufficient_data =
                    (Cardinality(DOMAIN prices[symbol]) >= MinHistoryRows)]

\* -------------------------------------------------------------- read cache

\* The read requests in flight: one GetAllStocks, one GetStocksBySector.
Readers == {"list", "sector"}

\* The cache after FlushAll: neither key holds an entry.
EmptyCache == [all |-> Nil, sector |-> Nil]
NoRead == [pc |-> "idle", val |-> Nil, hit |-> FALSE]

\* COALESCE(latest.close_price, 0): the close of the latest stored date.
current_price(s) ==
    IF DOMAIN daily_prices[s] = {} THEN 0 ELSE daily_prices[s][MaxDate(s)]

\* fetchAllStocksFromDatabase: the current price of every active stock.
fetchAllStocksFromDatabase ==
    [s \in {t \in Symbols : stocks[t].is_active} |-> current_price(s)]

\* Whether a cache operation is carried out: without a handle (the nil checks
\* skip it) or with Redis not answering it is not; otherwise it may fail.
CacheAnswers == IF cacheUp THEN BOOLEAN ELSE {FALSE}

\* RedisCache.InvalidateAll: FlushAll, or an error that leaves the entries.
InvalidateAll(c, ok) == IF ok THEN EmptyCache ELSE c

\* The invalidation, were it carried out also after a save that returned an
\* error.
InvalidateAfterSave_OnError(p, err, c, ok) ==
    IF p # "batch" THEN InvalidateAll(c, ok \/ err) ELSE c

\* The invalidation the job and the manual trigger attempt after a save that
\* reported no error; SyncBatch has none.
InvalidateAfterSave(p, err, c, ok) ==
    IF p # "batch" /\ ~err THEN InvalidateAll(c, ok) ELSE c

\* HandleWebSocket invocations that may be in progress at once.
Handlers == 1..MaxHandlers
NoConn == [open |-> FALSE, first |-> "none", silentFor |-> 0]

\* No broadcast pass is in progress.
NoPass == [todo |-> {}, cur |-> 0, clientsToRemove |-> {}]

\* A connection without a ping goroutine; `tick` is a tick buffered in
\* pingTicker.C.
NoPing == [at |-> "none", tick |-> FALSE]

\* Migrator.Up is not running; `result` is the error of the run that just
\* returned, `run` the versions the run has applied so far.
NoUp == [at |-> "idle", applied |-> {}, migrations |-> <<>>, i |-> 0,
         run |-> <<>>, result |-> Nil]

\* The seeder is not running. `env` and `input` are the environment name and
\* the operator's line of the last run, `before` the price records that run
\* found, `result` how it ended.
NoSeed == [at |-> "idle", env |-> <<>>, input |-> Nil, before |-> <<>>,
           stocks |-> <<>>, i |-> 0, successful |-> 0, failed |-> 0,
           result |-> Nil]

\* -------------------------------------------------------------------- Init

NoLoc == [symbol |-> "", readOutcome |-> "none"]
NoBatch == [requested |-> 0, maxStocks |-> 0, remainingCalls |-> 0,
            pendingStocks |-> <<>>, i |-> 0, Stocks |-> <<>>,
            Successful |-> 0, Failed |-> 0, TotalAttempted |-> 0]

InitLedger ==
    /\ rowPresent \in BOOLEAN
    /\ \E lim \in 1..MaxDailyLimit :
         api_rate_limits = [daily_limit |-> lim, hourly_limit |-> NULL,
                            current_daily_count |-> 0, current_hourly_count |-> 0,
                            last_reset_date |-> 0, last_reset_hour |-> 0]
    /\ recorded = 0
    /\ sequenceClean = TRUE

\* The service at the top of an hour: the sync entry of the cron has fired,
\* no caller is running.
InitIdle ==
    /\ today = 0 /\ hour = 0
    /\ syncDue = TRUE /\ resetDue = FALSE
    /\ api_calls = 0
    /\ providerCalls = [d \in 0..MaxDay |-> 0]
    /\ pc = [p \in Callers |-> "idle"]
    /\ loc = [p \in Callers |-> NoLoc]
    /\ batch = NoBatch
    /\ inv = [p \in Callers |-> 0]
    /\ returned = Nil
    /\ logged = Nil
    /\ saved = Nil
    /\ cache = EmptyCache
    /\ reader = [r \in Readers |-> NoRead]
    /\ clients = {}
    /\ handler = [h \in Handlers |-> "idle"]
    /\ conns = [h \in Handlers |-> NoConn]
    /\ response = Nil
    /\ pass = Nil
    /\ unregistered = Nil
    /\ exited = FALSE
    /\ prioritized = <<>>
    /\ body = Nil
    /\ fetched = Nil
    /\ clientsMutex = "free"
    /\ bcast = NoPass
    /\ writing = [h \in Handlers |-> {}]
    /\ pinger = [h \in Handlers |-> NoPing]
    /\ mu = {}
    /\ status = "idle"
    /\ cancelled = FALSE
    /\ schema_migrations = {}
    /\ seed = NoSeed
    /\ isRunning = TRUE
    /\ entries = 1
    /\ due = 0
    /\ lastDataSync = 0
    /\ committed = <<>>
    /\ up = NoUp

\* The service started on the seeded stocks table, no history stored yet.
InitService ==
    /\ InitLedger
    /\ InitIdle
    /\ stocks = [s \in DOMAIN GetTop500SP500Stocks |->
                   [market_cap |-> GetTop500SP500Stocks[s],
                    is_active |-> TRUE,
                    has_sufficient_data |-> FALSE]]
    /\ daily_prices = [s \in DOMAIN GetTop500SP500Stocks |-> <<>>]
    /\ selLimit = 0 /\ selOut = <<>>

\* main lines 37-46: NewRedisCache reached Redis.
Init ==
    /\ InitService
    /\ cacheUp = TRUE

\* ------------------------------------------------------------------- clock

\* The wall clock reaches the next hour; both hourly cron entries fire.
Tick ==
    /\ \/ /\ hour < HoursPerDay - 1
          /\ hour' = hour + 1
          /\ today' = today
          /\ sequenceClean' = sequenceClean
       \/ /\ hour = HoursPerDay - 1
          /\ today < MaxDay
          /\ hour' = 0
          /\ today' = today + 1
          /\ sequenceClean' = FALSE
    /\ syncDue' = TRUE
    /\ resetDue' = TRUE
    /\ returned' = Nil /\ logged' = Nil /\ saved' = Nil
    /\ UNCHANGED <<rowPresent, api_rate_limits, recorded, api_calls, providerCalls,
                   storeVars, pc, loc, batch, inv, selVars,
                   cacheVars, hubVars, envVars>>

\* SchedulerService.resetRateLimitsJob: one UPDATE, which may fail.
resetRateLimitsJob ==
    /\ resetDue
    /\ resetDue' = FALSE
    /\ \E outcome \in ReadOutcomes :
         LET row == IF outcome = "ok" /\ rowPresent
                    THEN resetRateLimits(api_rate_limits, today, hour)
                    ELSE api_rate_limits
         IN /\ api_rate_limits' = row
            /\ sequenceClean' = (sequenceClean /\ row = api_rate_limits)
    /\ returned' = Nil /\ logged' = Nil /\ saved' = Nil
    /\ UNCHANGED <<today, hour, syncDue, rowPresent, recorded, api_calls,
                   providerCalls, storeVars, pc, loc, batch, inv, selVars,
                   cacheVars, hubVars, envVars>>

\* ------------------------------------------------------- returns and loops

\* A caller's invocation returns err and, from SyncBatch, the result pointer.
Return(p, e, res, run) ==
    /\ pc' = [pc EXCEPT ![p] = "idle"]
    /\ loc' = [loc EXCEPT ![p] = NoLoc]
    /\ inv' = [inv EXCEPT ![p] = 0]
    /\ batch' = IF p = "batch" THEN NoBatch ELSE batch
    /\ returned' = Some([caller |-> p, err |-> e, result |-> res, run |-> run,
                         calls |-> inv[p]])

\* A caller's invocation goes on at `at` with FetchDailyData locals l.
Goto(p, at, l) ==
    /\ pc' = [pc EXCEPT ![p] = at]
    /\ loc' = [loc EXCEPT ![p] = l]
    /\ returned' = Nil

\* The SyncResult built from the batch locals.
SyncResult(b) ==
    [TotalAttempted |-> b.TotalAttempted, Successful |-> b.Successful,
     Failed |-> b.Failed, Stocks |-> b.Stocks]

\* The loop, were it to stop at the first failed stock.
LoopContinues_StopOnFailure(stockResult, i, n) == stockResult.Success /\ i < n

\* SyncBatch line 80: the loop goes on to the next stock whatever the last
\* result was.
LoopContinues(stockResult, i, n) == i < n

\* The loop, were the next stock fetched on the strength of the check made at
\* the start of the batch.
BatchAppend_NoRecheck(stockResult) ==
    LET b == [batch EXCEPT
                !.Stocks = Append(@, stockResult),
                !.TotalAttempted = @ + 1,
                !.Successful = IF stockResult.Success THEN @ + 1 ELSE @,
                !.Failed = IF stockResult.Success THEN @ ELSE @ + 1]
    IN IF LoopContinues(stockResult, batch.i, Len(batch.pendingStocks))
       THEN /\ batch' = [b EXCEPT !.i = @ + 1]
            /\ Goto("batch", "fetch_request",
                    [NoLoc EXCEPT !.symbol = batch.pendingStocks[batch.i + 1]])
            /\ inv' = inv
       ELSE Return("batch", "none", Some(SyncResult(b)), b)

\* SyncBatch lines 83-107: one stock's result is appended and counted; then the
\* next stock, or the return.
BatchAppend(stockResult) ==
    LET b == [batch EXCEPT
                !.Stocks = Append(@, stockResult),
                !.TotalAttempted = @ + 1,
                !.Successful = IF stockResult.Success THEN @ + 1 ELSE @,
                !.Failed = IF stockResult.Success THEN @ ELSE @ + 1]
    IN IF LoopContinues(stockResult, batch.i, Len(batch.pendingStocks))
       THEN /\ batch' = [b EXCEPT !.i = @ + 1]
            /\ Goto("batch", "fetch_check",
                    [NoLoc EXCEPT !.symbol = batch.pendingStocks[batch.i + 1]])
            /\ inv' = inv
       ELSE Return("batch", "none", Some(SyncResult(b)), b)

StockSyncResult(symbol, e) ==
    [Symbol |-> symbol, Success |-> (e = "none"), ErrorMessage |-> e]

\* The caller's handling of a fetch error, were the job to try its stock again.
AfterFetch_JobRetries(p, e) ==
    IF e = "none"
    THEN /\ Goto(p, "save", [NoLoc EXCEPT !.symbol = loc[p].symbol])
         /\ UNCHANGED <<batch, inv>>
    ELSE IF p = "batch"
    THEN BatchAppend(StockSyncResult(loc[p].symbol, e))
    ELSE IF p = "job"
    THEN /\ Goto(p, "fetch_check", loc[p])
         /\ UNCHANGED <<batch, inv>>
    ELSE Return(p, e, Nil, NoBatch)

\* What the caller does with the error FetchDailyData returned: syncSingleStock
\* lines 121-128, syncStockDataJob lines 150-154, TriggerManualSync lines 334-337.
AfterFetch(p, e) ==
    IF e = "none"
    THEN /\ Goto(p, "save", [NoLoc EXCEPT !.symbol = loc[p].symbol])
         /\ UNCHANGED <<batch, inv>>
    ELSE IF p = "batch"
    THEN BatchAppend(StockSyncResult(loc[p].symbol, e))
    ELSE Return(p, e, Nil, NoBatch)

\* --------------------------------------------------------- provider client

\* Top-level keys of the provider's envelope that carry a message, not data.
NoteKeys == {"Error Message", "Note", "Information"}

\* A provider answer: no answer (status 0), a non-200 status, or a 200 body
\* that unmarshals into AlphaVantageResponse or does not, holds a non-empty
\* "Time Series (Daily)" or not, and has some of the message keys.
Responses ==
    {r \in [status : {0, 200, 500}, parses : BOOLEAN, series : BOOLEAN,
            keys : SUBSET NoteKeys] :
        /\ r.status # 200 => ~r.parses
        /\ ~r.parses => (~r.series /\ r.keys = {})}

\* makeRequest lines 208-216 and FetchDailyData lines 160-186: the error
\* returned for an answer, "none" for a series.
FetchDailyData_Error(r) ==
    IF r.status # 200 THEN "request_failed"
    ELSE IF ~r.parses THEN "parse_failed"
    ELSE IF r.series THEN "none"
    ELSE IF "Error Message" \in r.keys THEN "api_error"
    ELSE IF "Note" \in r.keys THEN "api_note"
    ELSE "no_data"

RespKinds == {"series", "note", "empty", "transport", "non200"}

\* The answer each kind stands for.
KindResponse(kind) ==
    [status |-> CASE kind = "transport" -> 0 [] kind = "non200" -> 500 [] OTHER -> 200,
     parses |-> kind \in {"series", "note", "empty"},
     series |-> kind = "series",
     keys |-> IF kind = "note" THEN {"Note"} ELSE {}]

\* FetchDailyData lines 160-186: the error returned for a response, "none"
\* for a series. The kind of the response is drawn where FetchDailyData
\* first branches on it, after LogAPICall.
FetchError(kind) == FetchDailyData_Error(KindResponse(kind))

\* A step of the provider client alone: no invocation moves, no table changes.
ClientFrame ==
    /\ returned' = Nil /\ logged' = Nil /\ saved' = Nil
    /\ UNCHANGED <<clockVars, ledgerVars, api_calls, providerCalls, storeVars,
                   pc, loc, batch, inv, selVars, cacheVars, hubVars,
                   exited, cacheUp, auxVars>>

\* makeRequest: the provider answers.
ProviderAnswers ==
    /\ body' \in {Some(r) : r \in Responses}
    /\ fetched' = Nil
    /\ ClientFrame

\* FetchDailyData lines 160-186 on that answer.
FetchDailyData ==
    /\ body # Nil
    /\ fetched' = Some([err |-> FetchDailyData_Error(body[1]),
                        data |-> FetchDailyData_Error(body[1]) = "none"])
    /\ body' = body
    /\ ClientFrame

RECURSIVE SumTo(_, _)
SumTo(f, n) == IF n < 0 THEN 0 ELSE f[n] + SumTo(f, n - 1)
TotalCalls == SumTo(providerCalls, MaxDay)

\* What the read of the row did, as the caller sees it.
ReadResult(outcome) ==
    IF outcome # "ok" THEN outcome ELSE IF rowPresent THEN "ok" ELSE "no_row"

\* FetchDailyData lines 121-128: the gate.
FetchCheck(p) ==
    /\ pc[p] = "fetch_check"
    /\ \E outcome \in ReadOutcomes :
         LET r == CanMakeRequest(outcome)
         IN IF r.err THEN AfterFetch(p, "check_failed")
            ELSE IF ~r.canMake THEN AfterFetch(p, "rate_limited")
            ELSE /\ Goto(p, "fetch_request",
                         [loc[p] EXCEPT !.readOutcome = ReadResult(outcome)])
                 /\ UNCHANGED <<batch, inv>>
    /\ logged' = Nil /\ saved' = Nil
    /\ UNCHANGED <<clockVars, ledgerVars, api_calls, providerCalls, storeVars, selVars,
                   cacheVars, hubVars, envVars>>

\* FetchDailyData lines 137-152: makeRequest, the one physical call.
FetchRequest(p) ==
    /\ pc[p] = "fetch_request"
    /\ TotalCalls < MaxCalls
    /\ Goto(p, "fetch_log", loc[p])
    /\ providerCalls' = [providerCalls EXCEPT ![today] = @ + 1]
    /\ inv' = [inv EXCEPT ![p] = @ + 1]
    /\ logged' = Nil /\ saved' = Nil
    /\ UNCHANGED <<clockVars, ledgerVars, api_calls, storeVars, batch, selVars,
                   cacheVars, hubVars, envVars>>

\* LogAPICall lines 87-99: the INSERT into api_calls. When it fails LogAPICall
\* returns before updateRateLimit and FetchDailyData goes on (lines 156-186).
FetchLog(p) ==
    /\ pc[p] = "fetch_log"
    /\ \/ /\ api_calls' = api_calls + 1
          /\ Goto(p, "fetch_update", loc[p])
          /\ logged' = Nil /\ saved' = Nil
          /\ UNCHANGED <<batch, inv>>
       \/ /\ api_calls' = api_calls
          /\ \E kind \in RespKinds : AfterFetch(p, FetchError(kind))
          /\ logged' = Some([caller |-> p, logDelta |-> 0, dailyDelta |-> 0,
                             hourlyDelta |-> 0])
          /\ saved' = Nil
    /\ UNCHANGED <<clockVars, ledgerVars, providerCalls, storeVars, selVars,
                   cacheVars, hubVars, envVars>>

\* LogAPICall line 102: updateRateLimit; then FetchDailyData lines 156-186.
FetchUpdate(p) ==
    /\ pc[p] = "fetch_update"
    /\ \E outcome \in ReadOutcomes :
         LET done == outcome = "ok" /\ rowPresent
             row == IF done THEN updateRateLimit(api_rate_limits, today, hour)
                    ELSE api_rate_limits
         IN /\ api_rate_limits' = row
            /\ recorded' = IF done THEN recorded + 1 ELSE recorded
            /\ logged' = Some([caller |-> p, logDelta |-> 1,
                               dailyDelta |-> row.current_daily_count
                                              - api_rate_limits.current_daily_count,
                               hourlyDelta |-> row.current_hourly_count
                                               - api_rate_limits.current_hourly_count])
    /\ \E kind \in RespKinds : AfterFetch(p, FetchError(kind))
    /\ saved' = Nil
    /\ UNCHANGED <<clockVars, rowPresent, sequenceClean, api_calls, providerCalls,
                   storeVars, selVars,
                   cacheVars, hubVars, envVars>>

\* The outcomes of the two status updates syncSingleStock makes after a save
\* (lines 142-155); the scheduler's paths make neither.
StatusAnswers(p) == IF p = "batch" THEN BOOLEAN ELSE {TRUE}

\* The outcomes of the InvalidateAll the scheduler's paths make after a save
\* without error; no other path and no failed save asks the cache.
FlushAnswers(p, err) == IF p # "batch" /\ ~err THEN CacheAnswers ELSE {FALSE}

\* SaveHistoricalData and what the caller does after it: syncSingleStock lines
\* 131-159, syncStockDataJob lines 156-182, TriggerManualSync lines 339-363.
\* The price the fetched series carries is drawn here, where it is first used,
\* from the prices the provider serves.
SaveStep(p, served) ==
    /\ pc[p] = "save"
    /\ \E data \in served, lookup \in ReadOutcomes, failed \in FailedRowSets :
       \E r \in {SaveHistoricalData(loc[p].symbol, data, lookup, failed)} :
       \E okP, okS \in StatusAnswers(p), okI \in FlushAnswers(p, r.err) :
         LET e == IF r.err THEN "save_failed" ELSE "none"
             t1 == IF okP THEN UpdateStockWithPriority(stocks, loc[p].symbol)
                   ELSE stocks
             t2 == IF okS THEN updateStockDataStatus(t1, r.prices, loc[p].symbol)
                   ELSE t1
         IN /\ daily_prices' = r.prices
            /\ cache' = InvalidateAfterSave(p, r.err, cache, okI)
            /\ IF p = "batch"
               THEN /\ BatchAppend(StockSyncResult(loc[p].symbol, e))
                    /\ stocks' = IF r.err THEN stocks ELSE t2
               ELSE /\ Return(p, e, Nil, NoBatch)
                    /\ stocks' = stocks
            /\ lastDataSync' = IF p # "batch" /\ ~r.err THEN Now ELSE lastDataSync
            /\ saved' = Some([caller |-> p, symbol |-> loc[p].symbol, data |-> data,
                              err |-> r.err, inserted |-> r.inserted,
                              updated |-> r.updated,
                              before |-> daily_prices[loc[p].symbol],
                              invalidated |-> (p # "batch" /\ ~r.err /\ okI)])
    /\ logged' = Nil
    /\ UNCHANGED <<clockVars, ledgerVars, api_calls, providerCalls, selVars,
                   reader, hubVars, exited, cacheUp, body, fetched,
                   connVars, migVars, seedVars, cancelled, isRunning, entries, due>>

\* The entry check, were the denial not to end the invocation.
EntryCheck_NoDenial(p, next, l) ==
    \E outcome \in ReadOutcomes :
        LET r == CanMakeRequest(outcome)
        IN IF r.err THEN Return(p, "check_failed", Nil, NoBatch)
           ELSE /\ Goto(p, next, l)
                /\ inv' = inv

\* The CanMakeRequest with which an orchestrator starts: error, denial or go on.
EntryCheck(p, next, l) ==
    \E outcome \in ReadOutcomes :
        LET r == CanMakeRequest(outcome)
        IN IF r.err THEN Return(p, "check_failed", Nil, NoBatch)
           ELSE IF ~r.canMake THEN Return(p, "rate_limited", Nil, NoBatch)
           ELSE /\ Goto(p, next, l)
                /\ inv' = inv

\* ------------------------------------------------------ TriggerManualSync

\* lines 322-332
TriggerManualSync ==
    /\ pc["manual"] = "idle"
    /\ \E sym \in Symbols :
         EntryCheck("manual", "fetch_check", [NoLoc EXCEPT !.symbol = sym])
    /\ batch' = batch
    /\ logged' = Nil /\ saved' = Nil
    /\ UNCHANGED <<clockVars, ledgerVars, api_calls, providerCalls, storeVars, selVars,
                   cacheVars, hubVars, envVars>>

\* ------------------------------------------------------- syncStockDataJob

\* lines 113-133: a cancelled context ends the job before its quota check.
syncStockDataJob ==
    /\ syncDue
    /\ syncDue' = FALSE
    /\ pc["job"] = "idle"
    /\ IF cancelled THEN Return("job", "cancelled", Nil, NoBatch)
       ELSE EntryCheck("job", "job_select", NoLoc)
    /\ batch' = batch
    /\ logged' = Nil /\ saved' = Nil
    /\ UNCHANGED <<today, hour, resetDue, ledgerVars, api_calls, providerCalls,
                   storeVars, selVars,
                   cacheVars, hubVars, envVars>>

\* lines 135-145
JobSelect ==
    /\ pc["job"] = "job_select"
    /\ \E outcome \in ReadOutcomes :
         IF outcome # "ok"
         THEN Return("job", "select_failed", Nil, NoBatch)
         ELSE IF getNextStockToSync = ""
         THEN Return("job", "no_stock", Nil, NoBatch)
         ELSE /\ Goto("job", "fetch_check", [NoLoc EXCEPT !.symbol = getNextStockToSync])
              /\ UNCHANGED <<inv, batch>>
    /\ logged' = Nil /\ saved' = Nil
    /\ UNCHANGED <<clockVars, ledgerVars, api_calls, providerCalls, storeVars, selVars,
                   cacheVars, hubVars, envVars>>

\* --------------------------------------------------------------- SyncBatch

\* lines 27-37
SyncBatch ==
    /\ pc["batch"] = "idle"
    /\ \E n \in 1..MaxBatch, outcome \in ReadOutcomes :
         LET r == CanMakeRequest(outcome)
             b == [NoBatch EXCEPT !.requested = n, !.maxStocks = n]
         IN IF r.err THEN Return("batch", "check_failed", Nil, b)
            ELSE IF ~r.canMake THEN Return("batch", "rate_limited", Nil, b)
            ELSE /\ Goto("batch", "bat_limit", NoLoc)
                 /\ batch' = b
                 /\ inv' = inv
    /\ logged' = Nil /\ saved' = Nil
    /\ UNCHANGED <<clockVars, ledgerVars, api_calls, providerCalls, storeVars, selVars,
                   cacheVars, hubVars, envVars>>

\* SyncBatch, were it not to limit maxStocks to the calls that remain.
LimitToAvailable_NoCap(maxStocks, remainingCalls) == maxStocks

\* lines 52-55: limit to available calls
LimitToAvailable(maxStocks, remainingCalls) ==
    IF maxStocks > remainingCalls THEN remainingCalls ELSE maxStocks

\* lines 40-55
BatchLimit ==
    /\ pc["batch"] = "bat_limit"
    /\ \E outcome \in ReadOutcomes :
         LET r == GetRateLimit(outcome)
             remainingCalls == r.rateLimit[1].daily_limit
                               - r.rateLimit[1].current_daily_count
         IN IF r.err
            THEN Return("batch", "ratelimit_failed", Nil, batch)
            ELSE IF remainingCalls <= 0
            THEN Return("batch", "rate_limited", Nil,
                        [batch EXCEPT !.remainingCalls = remainingCalls])
            ELSE /\ batch' = [batch EXCEPT
                                !.remainingCalls = remainingCalls,
                                !.maxStocks = LimitToAvailable(batch.maxStocks,
                                                               remainingCalls)]
                 /\ Goto("batch", "bat_select", NoLoc)
                 /\ inv' = inv
    /\ logged' = Nil /\ saved' = Nil
    /\ UNCHANGED <<clockVars, ledgerVars, api_calls, providerCalls, storeVars, selVars,
                   cacheVars, hubVars, envVars>>

\* lines 58-78
BatchSelect ==
    /\ pc["batch"] = "bat_select"
    /\ \/ Return("batch", "select_failed", Nil, batch)
       \/ \E q \in GetPendingStocksForSync(batch.maxStocks) :
            LET b == [batch EXCEPT !.pendingStocks = q, !.i = 1]
            IN IF Len(q) = 0
               THEN Return("batch", "none", Some(SyncResult(b)), b)
               ELSE /\ batch' = b
                    /\ Goto("batch", "fetch_check", [NoLoc EXCEPT !.symbol = q[1]])
                    /\ inv' = inv
    /\ logged' = Nil /\ saved' = Nil
    /\ UNCHANGED <<clockVars, ledgerVars, api_calls, providerCalls, storeVars, selVars,
                   cacheVars, hubVars, envVars>>

\* ------------------------------------------------------------ read requests

\* A reader moves; no invocation returns and no table changes in that step.
ReaderStep(r, new) ==
    /\ reader' = [reader EXCEPT ![r] = new]
    /\ returned' = Nil /\ logged' = Nil /\ saved' = Nil
    /\ UNCHANGED <<clockVars, ledgerVars, api_calls, providerCalls, storeVars,
                   pc, loc, batch, inv, selVars, hubVars, envVars>>

\* GetStocksBySector lines 350-361: the sector key is read; a stored entry is
\* returned, a miss or a Redis error goes on to GetAllStocks.
GetSectorData(r) ==
    /\ r = "sector" /\ reader[r].pc = "idle"
    /\ \E ok \in CacheAnswers :
         IF ok /\ cache.sector # Nil
         THEN ReaderStep(r, [pc |-> "done", val |-> cache.sector, hit |-> TRUE])
         ELSE ReaderStep(r, [pc |-> "get_all", val |-> Nil, hit |-> FALSE])
    /\ cache' = cache

\* The list read, were a cache that does not answer to end the request with
\* no data.
GetStocksList_FailsWithoutCache(r) ==
    /\ \/ (r = "list" /\ reader[r].pc = "idle")
       \/ (r = "sector" /\ reader[r].pc = "get_all")
    /\ \E ok \in CacheAnswers :
         IF ok /\ cache.all # Nil
         THEN ReaderStep(r, [pc |-> IF r = "list" THEN "done" ELSE "set_sector",
                             val |-> cache.all, hit |-> TRUE])
         ELSE IF ~ok
         THEN ReaderStep(r, [pc |-> "done", val |-> Nil, hit |-> FALSE])
         ELSE ReaderStep(r, [pc |-> "fetched", val |-> Some(fetchAllStocksFromDatabase),
                             hit |-> FALSE])
    /\ cache' = cache

\* GetAllStocks lines 26-35: the list key is read; a stored entry is returned
\* to the caller, a miss or a Redis error goes on to the database.
GetStocksList(r) ==
    /\ \/ (r = "list" /\ reader[r].pc = "idle")
       \/ (r = "sector" /\ reader[r].pc = "get_all")
    /\ \E ok \in CacheAnswers :
         IF ok /\ cache.all # Nil
         THEN ReaderStep(r, [pc |-> IF r = "list" THEN "done" ELSE "set_sector",
                             val |-> cache.all, hit |-> TRUE])
         ELSE ReaderStep(r, [pc |-> "fetched", val |-> Some(fetchAllStocksFromDatabase),
                             hit |-> FALSE])
    /\ cache' = cache

\* GetAllStocks lines 38-48: the list read from the database is stored under
\* the list key (a failure is only logged) and returned.
SetStocksList(r) ==
    /\ reader[r].pc = "fetched"
    /\ \E ok \in CacheAnswers :
         cache' = IF ok THEN [cache EXCEPT !.all = reader[r].val] ELSE cache
    /\ ReaderStep(r, [reader[r] EXCEPT !.pc = IF r = "list" THEN "done"
                                               ELSE "set_sector"])

\* GetStocksBySector lines 363-379: the filtered list is stored under the
\* sector key (a failure is only logged) and returned.
SetSectorData(r) ==
    /\ reader[r].pc = "set_sector"
    /\ \E ok \in CacheAnswers :
         cache' = IF ok THEN [cache EXCEPT !.sector = reader[r].val] ELSE cache
    /\ ReaderStep(r, [reader[r] EXCEPT !.pc = "done"])

\* The request ends; the next one of its kind may start.
ReadReturn(r) ==
    /\ reader[r].pc = "done"
    /\ ReaderStep(r, NoRead)
    /\ cache' = cache

\* ------------------------------------------------------------ subscriber hub

\* A hub step: no sync invocation moves, no table and no cache entry changes.
HubFrame ==
    /\ returned' = Nil /\ logged' = Nil /\ saved' = Nil
    /\ UNCHANGED <<clockVars, ledgerVars, api_calls, providerCalls, storeVars,
                   pc, loc, batch, inv, selVars, cacheVars, envVars>>

\* The admission test, were it to admit at the limit.
Admits_AtLimit(currentConnections) == currentConnections <= maxConnections

\* HandleWebSocket line 62, negated: the attempt goes on to the upgrade.
Admits(currentConnections) == currentConnections < maxConnections

\* HandleWebSocket lines 56-78: len(clients) is read under the read lock; at the
\* limit the attempt is answered 429 and ends; otherwise the upgrade answers
\* 101 and the connection is open, or fails (400) and the attempt ends.
HandleWebSocket(h) ==
    /\ handler[h] = "idle"
    /\ LET currentConnections == Cardinality(clients)
       IN IF ~Admits(currentConnections)
          THEN /\ response' = Some([handler |-> h, status |-> 429,
                                    error |-> "Too many connections",
                                    limit |-> maxConnections,
                                    current |-> currentConnections,
                                    upgraded |-> FALSE])
               /\ UNCHANGED <<handler, conns>>
          ELSE \E ok \in BOOLEAN :
                 /\ response' = Some([handler |-> h,
                                      status |-> IF ok THEN 101 ELSE 400,
                                      error |-> IF ok THEN "" ELSE "upgrade failed",
                                      limit |-> maxConnections,
                                      current |-> currentConnections,
                                      upgraded |-> ok])
                 /\ handler' = [handler EXCEPT ![h] = IF ok THEN "upgraded" ELSE "idle"]
                 /\ conns' = [conns EXCEPT ![h] = IF ok THEN [NoConn EXCEPT !.open = TRUE]
                                                  ELSE NoConn]
    /\ clients' = clients
    /\ pass' = Nil /\ unregistered' = Nil
    /\ HubFrame

\* HandleWebSocket lines 80-84: the connection is registered under the lock.
Register(h) ==
    /\ handler[h] = "upgraded"
    /\ clients' = clients \cup {h}
    /\ handler' = [handler EXCEPT ![h] = "registered"]
    /\ conns' = conns
    /\ response' = Nil /\ pass' = Nil /\ unregistered' = Nil
    /\ HubFrame

\* The first data message a connection has carried, after one of kind `type`.
FirstAfter(c, type) == IF c.first = "none" THEN [c EXCEPT !.first = type] ELSE c

\* HandleWebSocket line 99, sendInitialData lines 143-162: the snapshot is
\* written to the connection without the lock; a write error is only logged.
sendInitialData(h) ==
    /\ handler[h] = "registered"
    /\ \E ok \in BOOLEAN :
         conns' = [conns EXCEPT ![h] = IF ok /\ @.open THEN FirstAfter(@, "initial")
                                        ELSE @]
    /\ handler' = [handler EXCEPT ![h] = "reading"]
    /\ clients' = clients
    /\ response' = Nil /\ pass' = Nil /\ unregistered' = Nil
    /\ HubFrame

\* The removal of a key, were it to release some entry when the key is absent.
delete_SomeWhenAbsent(m, key) ==
    IF key \in m \/ m = {} THEN m \ {key} ELSE m \ {CHOOSE c \in m : TRUE}

\* Go's delete(wsh.clients, conn): a no-op when the key is absent.
delete(m, key) == m \ {key}

\* HandleWebSocket lines 119-139 and the deferred Close: ReadMessage fails (the
\* peer left, or the connection was closed), the connection is unregistered
\* and closed.
ReadLoopEnds(h) ==
    /\ clients' = delete(clients, h)
    /\ handler' = [handler EXCEPT ![h] = "idle"]
    /\ conns' = [conns EXCEPT ![h] = NoConn]
    /\ unregistered' = Some([handler |-> h, before |-> clients,
                             closedByPass |-> ~conns[h].open])
    /\ response' = Nil /\ pass' = Nil
    /\ HubFrame

\* The peer leaves, or the connection was closed: ReadMessage returns an error.
Unregister(h) ==
    /\ handler[h] = "reading"
    /\ ReadLoopEnds(h)

\* The read deadline, were none to be set on the connection.
DeadlinePassed_NoDeadline(c) == FALSE

\* HandleWebSocket line 89 (and 94, 130): the read deadline is 60 seconds
\* after it was last set.
DeadlinePassed(c) == c.silentFor >= ReadDeadline

\* A connection in its read loop that has not yet been silent for 60 seconds.
Waiting(h) == handler[h] = "reading" /\ conns[h].silentFor < ReadDeadline

\* Time passes on every such connection.
Elapse ==
    /\ \E h \in Handlers : Waiting(h)
    /\ conns' = [h \in Handlers |->
                   IF Waiting(h)
                   THEN [conns[h] EXCEPT !.silentFor = @ + 1]
                   ELSE conns[h]]
    /\ UNCHANGED <<clients, handler>>
    /\ response' = Nil /\ pass' = Nil /\ unregistered' = Nil
    /\ HubFrame

\* HandleWebSocket lines 93-96 and 119-131: a pong or a message arrives before
\* the deadline and the deadline is set anew.
ReadMessage(h) ==
    /\ handler[h] = "reading"
    /\ conns[h].open
    /\ ~DeadlinePassed(conns[h])
    /\ conns' = [conns EXCEPT ![h].silentFor = 0]
    /\ UNCHANGED <<clients, handler>>
    /\ response' = Nil /\ pass' = Nil /\ unregistered' = Nil
    /\ HubFrame

\* HandleWebSocket lines 119-139: nothing arrived within the deadline,
\* ReadMessage returns the timeout error and the connection is unregistered.
ReadTimeout(h) ==
    /\ handler[h] = "reading"
    /\ DeadlinePassed(conns[h])
    /\ ReadLoopEnds(h)

RECURSIVE WriteLoop_StopAtFailure(_, _, _)
\* The loop of a pass, were it to end at the first failed write.
WriteLoop_StopAtFailure(order, failing, acc) ==
    IF order = <<>> THEN acc
    ELSE IF Head(order) \in failing
    THEN [acc EXCEPT !.clientsToRemove = @ \cup {Head(order)}]
    ELSE WriteLoop_StopAtFailure(Tail(order), failing,
                                 [acc EXCEPT !.written = @ \cup {Head(order)}])

RECURSIVE WriteLoop(_, _, _)
\* broadcastToClients lines 248-256 (handleBroadcast lines 170-178): every
\* client of the map is written to in the map's iteration order; a client
\* whose write fails is closed and noted for removal, and the loop goes on.
WriteLoop(order, failing, acc) ==
    IF order = <<>> THEN acc
    ELSE WriteLoop(Tail(order), failing,
                   IF Head(order) \in failing
                   THEN [acc EXCEPT !.clientsToRemove = @ \cup {Head(order)}]
                   ELSE [acc EXCEPT !.written = @ \cup {Head(order)}])

\* broadcastToClients lines 259-261: delete for each client noted for removal.
RECURSIVE deleteAll(_, _)
deleteAll(m, keys) ==
    IF keys = {} THEN m
    ELSE LET k == CHOOSE c \in keys : TRUE
         IN deleteAll(delete(m, k), keys \ {k})

\* The orders in which a range over the map may visit its keys.
IterationOrders(S) ==
    {o \in [1..Cardinality(S) -> S] : \A c \in S : \E i \in DOMAIN o : o[i] = c}

\* broadcastToClients lines 240-262, one pass under the write lock: the
\* price_update is written to each registered client, the failed ones are
\* closed and then deleted from the map. (handleBroadcast has the same body
\* and never runs a pass: nothing sends on the broadcast channel.)
broadcastToClients ==
    /\ clients # {}
    /\ \E order \in IterationOrders(clients), failing \in SUBSET clients :
       \E r \in {WriteLoop(order, failing, [written |-> {}, clientsToRemove |-> {}])} :
         /\ conns' = [h \in Handlers |->
                        IF h \in r.written THEN FirstAfter(conns[h], "price_update")
                        ELSE IF h \in r.clientsToRemove
                        THEN [conns[h] EXCEPT !.open = FALSE]
                        ELSE conns[h]]
         /\ clients' = deleteAll(clients, r.clientsToRemove)
         /\ pass' = Some([before |-> clients, written |-> r.written,
                          clientsToRemove |-> r.clientsToRemove])
    /\ handler' = handler
    /\ response' = Nil /\ unregistered' = Nil
    /\ HubFrame

\* ------------------------------------------------------------ specification

Next ==
    \/ \E p \in Callers : FetchCheck(p)
    \/ \E p \in Callers : FetchRequest(p)
    \/ \E p \in Callers : FetchLog(p)
    \/ \E p \in Callers : FetchUpdate(p)
    \/ \E p \in Callers : SaveStep(p, {1})
    \/ TriggerManualSync
    \/ syncStockDataJob \/ JobSelect
    \/ SyncBatch \/ BatchLimit \/ BatchSelect

Spec == Init /\ [][Next]_vars

\* The ledger under the wall clock: the hourly reset job and one caller.
NextClock ==
    \/ Tick
    \/ resetRateLimitsJob
    \/ TriggerManualSync
    \/ \E p \in Callers : FetchCheck(p)
    \/ \E p \in Callers : FetchRequest(p)
    \/ \E p \in Callers : FetchLog(p)
    \/ \E p \in Callers : FetchUpdate(p)
    \/ \E p \in Callers : SaveStep(p, {1})

SpecClock == Init /\ [][NextClock]_vars

\* The history store under one caller, the provider serving any price.
NextStore ==
    \/ TriggerManualSync
    \/ \E p \in Callers : FetchCheck(p)
    \/ \E p \in Callers : FetchRequest(p)
    \/ \E p \in Callers : FetchLog(p)
    \/ \E p \in Callers : FetchUpdate(p)
    \/ \E p \in Callers : SaveStep(p, Prices)

SpecStore == Init /\ [][NextStore]_vars

\* The read cache under one manual sync and the two read requests.
NextCache ==
    \/ TriggerManualSync
    \/ \E p \in Callers : FetchCheck(p)
    \/ \E p \in Callers : FetchRequest(p)
    \/ \E p \in Callers : FetchLog(p)
    \/ \E p \in Callers : FetchUpdate(p)
    \/ \E p \in Callers : SaveStep(p, {1})
    \/ \E r \in Readers : GetSectorData(r)
    \/ \E r \in Readers : GetStocksList(r)
    \/ \E r \in Readers : SetStocksList(r)
    \/ \E r \in Readers : SetSectorData(r)
    \/ \E r \in Readers : ReadReturn(r)

\* The ledger row exists and allows one call a day: one sync, then denials.
InitCache ==
    /\ Init
    /\ rowPresent
    /\ api_rate_limits.daily_limit = 1

SpecCache == InitCache /\ [][NextCache]_vars

\* The subscriber hub: connection attempts and broadcast passes.
NextHub ==
    \/ \E h \in Handlers : HandleWebSocket(h)
    \/ \E h \in Handlers : Register(h)
    \/ \E h \in Handlers : sendInitialData(h)
    \/ \E h \in Handlers : Unregister(h)
    \/ broadcastToClients

\* The hub beside an idle scheduler, whatever the ledger row holds.
InitHub ==
    /\ Init
    /\ rowPresent
    /\ api_rate_limits.daily_limit = 1

SpecHub == InitHub /\ [][NextHub]_vars

\* The hub's connections under the clock, between broadcast passes: the read
\* deadline runs, peers answer, stay silent or leave.
NextHubClock ==
    \/ \E h \in Handlers : HandleWebSocket(h)
    \/ \E h \in Handlers : Register(h)
    \/ \E h \in Handlers : sendInitialData(h)
    \/ \E h \in Handlers : Unregister(h)
    \/ Elapse
    \/ \E h \in Handlers : ReadMessage(h)
    \/ \E h \in Handlers : ReadTimeout(h)

\* Time passes, and a handler goroutine that can take its next step takes it.
FairHub ==
    /\ WF_vars(Elapse)
    /\ \A h \in Handlers : WF_vars(sendInitialData(h))
    /\ \A h \in Handlers : WF_vars(ReadTimeout(h))

SpecHubClock == InitHub /\ [][NextHubClock]_vars /\ FairHub

\* main lines 37-46: no Redis handle (or a Redis that never answers); the
\* ledger row exists and allows one call a day.
InitNoCache ==
    /\ InitService
    /\ rowPresent
    /\ api_rate_limits.daily_limit = 1
    /\ cacheUp = FALSE

\* The reads and one manual sync without a reachable cache.
SpecNoCache == InitNoCache /\ [][NextCache]_vars

\* The provider client on any answer.
NextClient == ProviderAnswers \/ FetchDailyData

SpecClient == Init /\ [][NextClient]_vars

\* ----------------------------------------------------------------- shutdown

\* main lines 152-162 with SchedulerService.Stop lines 97-110: on the signal the
\* context is cancelled and the cron stopped (no entry fires again), the
\* database handle is closed and the process exits. Nothing waits for a job
\* that is running: a SaveHistoricalData in progress has stored the rows it
\* had reached, and its goroutine ends with the process where it stands.
Shutdown ==
    /\ ~exited
    /\ exited' = TRUE
    /\ cancelled' = TRUE /\ isRunning' = FALSE
    /\ syncDue' = FALSE /\ resetDue' = FALSE
    /\ \E failed \in FailedRowSets :
         daily_prices' =
             [s \in Symbols |->
                IF \E p \in Callers : pc[p] = "save" /\ loc[p].symbol = s
                THEN Upsert(daily_prices[s], Series \ failed, 1)
                ELSE daily_prices[s]]
    /\ returned' = Nil /\ logged' = Nil /\ saved' = Nil
    /\ UNCHANGED <<today, hour, ledgerVars, api_calls, providerCalls, stocks,
                   pc, loc, batch, inv, selVars, cacheVars, hubVars, cacheUp,
                   body, fetched, connVars, migVars, seedVars,
                   entries, due, lastDataSync>>

\* The hourly job, a manual sync and the shutdown signal; after the exit
\* nothing runs.
NextShutdown ==
    \/ ~exited /\ syncStockDataJob
    \/ ~exited /\ TriggerManualSync
    \/ ~exited /\ JobSelect
    \/ ~exited /\ \E p \in Callers : FetchCheck(p)
    \/ ~exited /\ \E p \in Callers : FetchRequest(p)
    \/ ~exited /\ \E p \in Callers : FetchLog(p)
    \/ ~exited /\ \E p \in Callers : FetchUpdate(p)
    \/ ~exited /\ \E p \in Callers : SaveStep(p, {1})
    \/ Shutdown

SpecShutdown == Init /\ [][NextShutdown]_vars

\* ------------------------------------------------- pending-stock selector

\* market_cap values and stored-row counts of the stock tables examined.
CapValues == {NULL, 50, 100}
HistoryCounts == {0, 20, MinHistoryRows}

\* Any table of active stocks over the three symbols.
InitSel ==
    /\ InitLedger
    /\ InitIdle
    /\ \E cap \in [1..Len(SymbolOrder) -> CapValues],
          cnt \in [1..Len(SymbolOrder) -> HistoryCounts] :
         /\ stocks = [s \in {SymbolOrder[k] : k \in 1..Len(SymbolOrder)} |->
                        [market_cap |-> cap[Rank(s)],
                         is_active |-> TRUE,
                         has_sufficient_data |-> cnt[Rank(s)] >= MinHistoryRows]]
         /\ daily_prices = [s \in {SymbolOrder[k] : k \in 1..Len(SymbolOrder)} |->
                              [d \in 1..cnt[Rank(s)] |-> 1]]
    /\ selLimit = 0 /\ selOut = <<>>
    /\ cacheUp = TRUE

\* HistoricalDataSyncHandler.GetPendingStocks: the query fails (HTTP 500) or
\* the selector's sequence is returned.
GetPendingStocks ==
    /\ \E limit \in 1..MaxLimit :
         \/ /\ selLimit' = 0
            /\ selOut' = <<>>
         \/ /\ selLimit' = limit
            /\ selOut' \in GetPendingStocksForSync(limit)
    /\ returned' = Nil /\ logged' = Nil /\ saved' = Nil
    /\ UNCHANGED <<clockVars, ledgerVars, api_calls, providerCalls, storeVars,
                   pc, loc, batch, inv, prioritized, cacheVars, hubVars, envVars>>

NextSel == GetPendingStocks

\* The ORDER BY of the fetcher, were market_cap DESC left with its default
\* place for NULL (first).
FetcherBefore_NullsFirst(a, b) ==
    LET group(s) == IF price_count(s) = 0 THEN 1 ELSE 2
        capA == stocks[a].market_cap
        capB == stocks[b].market_cap
    IN \/ group(a) < group(b)
       \/ /\ group(a) = group(b)
          /\ \/ (capA = NULL /\ capB # NULL)
             \/ (capA # NULL /\ capB # NULL /\ capA > capB)
             \/ (capA = capB /\ Rank(a) < Rank(b))

\* getPrioritizedStocks lines 290-293: row a stands before row b under
\* ORDER BY CASE WHEN COUNT(dp.id) = 0 THEN 1 ELSE 2 END,
\*          s.market_cap DESC NULLS LAST, s.symbol.
FetcherBefore(a, b) ==
    LET group(s) == IF price_count(s) = 0 THEN 1 ELSE 2
        capA == stocks[a].market_cap
        capB == stocks[b].market_cap
    IN \/ group(a) < group(b)
       \/ /\ group(a) = group(b)
          /\ \/ (capA # NULL /\ capB = NULL)
             \/ (capA # NULL /\ capB # NULL /\ capA > capB)
             \/ (capA = capB /\ Rank(a) < Rank(b))

\* getPrioritizedStocks lines 284-312: the active stocks in the query's order,
\* without the rows whose Scan failed (a NULL sector).
getPrioritizedStocks(nullSector) ==
    LET active == {s \in Symbols : stocks[s].is_active}
        rows == CHOOSE q \in [1..Cardinality(active) -> active] :
                    \A i, j \in DOMAIN q : i < j => FetcherBefore(q[i], q[j])
        kept(s) == s \notin nullSector
    IN SelectSeq(rows, kept)

\* DataFetcher.Run lines 160-164: the query fails, or the stocks are taken in
\* the order getPrioritizedStocks returns.
FetchPrioritized ==
    /\ \/ prioritized' = <<>>
       \/ \E nullSector \in SUBSET Symbols :
            prioritized' = getPrioritizedStocks(nullSector)
    /\ returned' = Nil /\ logged' = Nil /\ saved' = Nil
    /\ UNCHANGED <<clockVars, ledgerVars, api_calls, providerCalls, storeVars,
                   pc, loc, batch, inv, selLimit, selOut, cacheVars, hubVars,
                   envVars>>

NextFetcher == FetchPrioritized

SpecFetcher == InitSel /\ [][NextFetcher]_vars

SpecSel == InitSel /\ [][NextSel]_vars

\* ------------------------------------------- connection writers and locks

MaxConns == 2          \* connections followed write by write

\* The connections whose writes are followed one by one.
ConnHandlers == 1..MaxConns

\* The locks goroutine g holds: broadcastToClients holds clientsMutex from
\* line 241 to its return, GetStatus holds mu from line 271 to its return;
\* a HandleWebSocket invocation and a ping goroutine hold a lock only inside
\* the lines 58-60, 81-84 and 134-137, which write to no connection.
Held(g) ==
    (IF clientsMutex = g THEN {"clientsMutex"} ELSE {})
        \cup (IF g \in mu THEN {"mu"} ELSE {})

\* The goroutines that are inside a connection write or a store query.
InIO ==
    UNION {writing[h] : h \in Handlers}
        \cup (IF status \in {"total", "processed"} THEN {"GetStatus"} ELSE {})

\* A step of a connection's goroutines, of the broadcaster or of GetStatus.
ConnFrame ==
    /\ returned' = Nil /\ logged' = Nil /\ saved' = Nil
    /\ response' = Nil /\ pass' = Nil /\ unregistered' = Nil
    /\ UNCHANGED <<clockVars, ledgerVars, api_calls, providerCalls, storeVars,
                   pc, loc, batch, inv, selVars, cacheVars,
                   exited, cacheUp, body, fetched, schedVars, migVars, seedVars>>

\* HandleWebSocket line 99, sendInitialData lines 143-158: the handler's
\* goroutine enters WriteJSON on its connection, holding no lock.
InitialWriteBegin(h) ==
    /\ handler[h] = "registered"
    /\ handler' = [handler EXCEPT ![h] = "sending"]
    /\ writing' = [writing EXCEPT ![h] = @ \cup {"HandleWebSocket"}]
    /\ UNCHANGED <<clients, conns, clientsMutex, bcast, pinger, mu, status>>
    /\ ConnFrame

\* sendInitialData lines 159-161 and HandleWebSocket lines 102-117: the write
\* returns (an error is only logged), the ping ticker is created and the ping
\* goroutine started; the handler enters its read loop.
InitialWriteEnd(h) ==
    /\ handler[h] = "sending"
    /\ \E ok \in BOOLEAN :
         conns' = [conns EXCEPT ![h] = IF ok /\ @.open THEN FirstAfter(@, "initial")
                                        ELSE @]
    /\ handler' = [handler EXCEPT ![h] = "reading"]
    /\ writing' = [writing EXCEPT ![h] = @ \ {"HandleWebSocket"}]
    /\ pinger' = [pinger EXCEPT ![h] = [at |-> "waiting", tick |-> FALSE]]
    /\ UNCHANGED <<clients, clientsMutex, bcast, mu, status>>
    /\ ConnFrame

\* The ticker of line 102 runs from its creation to the deferred Stop of
\* line 103, that is while the handler is in its read loop; its channel
\* buffers one tick.
PingTick(h) ==
    /\ handler[h] = "reading"
    /\ ~pinger[h].tick
    /\ pinger' = [pinger EXCEPT ![h].tick = TRUE]
    /\ UNCHANGED <<clients, handler, conns, clientsMutex, bcast, writing, mu, status>>
    /\ ConnFrame

\* HandleWebSocket lines 109-111: the ping goroutine receives a tick and
\* enters WriteMessage on the connection, holding no lock.
PingWriteBegin(h) ==
    /\ pinger[h].at = "waiting"
    /\ pinger[h].tick
    /\ pinger' = [pinger EXCEPT ![h] = [at |-> "writing", tick |-> FALSE]]
    /\ writing' = [writing EXCEPT ![h] = @ \cup {"ping"}]
    /\ UNCHANGED <<clients, handler, conns, clientsMutex, bcast, mu, status>>
    /\ ConnFrame

\* HandleWebSocket lines 111-115: the write returns; on an error (always, once
\* the connection is closed) the goroutine returns, otherwise it waits for
\* the next tick.
PingWriteEnd(h) ==
    /\ pinger[h].at = "writing"
    /\ \E ok \in (IF conns[h].open THEN BOOLEAN ELSE {FALSE}) :
         pinger' = [pinger EXCEPT ![h].at = IF ok THEN "waiting" ELSE "none"]
    /\ writing' = [writing EXCEPT ![h] = @ \ {"ping"}]
    /\ UNCHANGED <<clients, handler, conns, clientsMutex, bcast, mu, status>>
    /\ ConnFrame

\* broadcastPriceUpdates lines 195-212, broadcastToClients lines 241-248: on
\* its ticker the price-update goroutine builds the message and calls
\* broadcastToClients itself, which takes the write lock and starts to range
\* over the map. (With an empty map the lock is released at once.)
BroadcastLock ==
    /\ clientsMutex = "free"
    /\ clients # {}
    /\ clientsMutex' = "broadcastPriceUpdates"
    /\ bcast' = [todo |-> clients, cur |-> 0, clientsToRemove |-> {}]
    /\ UNCHANGED <<clients, handler, conns, writing, pinger, mu, status>>
    /\ ConnFrame

\* broadcastToClients lines 249-251: the next client of the range is taken and
\* the goroutine enters WriteJSON on it, the lock held.
BroadcastWriteBegin ==
    /\ clientsMutex = "broadcastPriceUpdates"
    /\ bcast.cur = 0
    /\ \E c \in bcast.todo :
         /\ bcast' = [bcast EXCEPT !.cur = c, !.todo = @ \ {c}]
         /\ writing' = [writing EXCEPT ![c] = @ \cup {"broadcastPriceUpdates"}]
    /\ UNCHANGED <<clients, handler, conns, clientsMutex, pinger, mu, status>>
    /\ ConnFrame

\* broadcastToClients lines 251-255: the write returns; on an error the client
\* is closed and noted for removal.
BroadcastWriteEnd ==
    /\ bcast.cur # 0
    /\ LET c == bcast.cur
       IN \E ok \in (IF conns[c].open THEN BOOLEAN ELSE {FALSE}) :
            /\ conns' = [conns EXCEPT ![c] = IF ok THEN FirstAfter(@, "price_update")
                                             ELSE [@ EXCEPT !.open = FALSE]]
            /\ bcast' = [bcast EXCEPT !.cur = 0,
                                      !.clientsToRemove = IF ok THEN @ ELSE @ \cup {c}]
            /\ writing' = [writing EXCEPT ![c] = @ \ {"broadcastPriceUpdates"}]
    /\ UNCHANGED <<clients, handler, clientsMutex, pinger, mu, status>>
    /\ ConnFrame

\* broadcastToClients lines 258-262: the range is over, the failed clients are
\* deleted from the map and the deferred Unlock runs.
BroadcastUnlock ==
    /\ clientsMutex = "broadcastPriceUpdates"
    /\ bcast.cur = 0 /\ bcast.todo = {}
    /\ clients' = deleteAll(clients, bcast.clientsToRemove)
    /\ clientsMutex' = "free"
    /\ bcast' = NoPass
    /\ UNCHANGED <<handler, conns, writing, pinger, mu, status>>
    /\ ConnFrame

\* GetStatus lines 270-285: the read lock is taken and held to the return;
\* under it the two COUNT queries are sent to the store, one after the other.
GetStatus ==
    /\ \/ /\ status = "idle"
          /\ status' = "total"
          /\ mu' = mu \cup {"GetStatus"}
       \/ /\ status = "total"
          /\ status' = "processed"
          /\ mu' = mu
    /\ UNCHANGED <<clients, handler, conns, clientsMutex, bcast, writing, pinger>>
    /\ ConnFrame

\* GetStatus lines 287-303: the errors are copied, the status is returned and
\* the deferred RUnlock runs.
GetStatusReturn ==
    /\ status = "processed"
    /\ status' = "idle"
    /\ mu' = mu \ {"GetStatus"}
    /\ UNCHANGED <<clients, handler, conns, clientsMutex, bcast, writing, pinger>>
    /\ ConnFrame

\* The lock of lines 58-60, 81-84 and 134-137 is taken when no pass holds it;
\* a slot serves a new connection once the goroutines of its last one ended.
NextConn ==
    \/ \E h \in ConnHandlers :
         clientsMutex = "free" /\ pinger[h].at = "none" /\ HandleWebSocket(h)
    \/ \E h \in ConnHandlers : clientsMutex = "free" /\ Register(h)
    \/ \E h \in ConnHandlers : InitialWriteBegin(h)
    \/ \E h \in ConnHandlers : InitialWriteEnd(h)
    \/ \E h \in ConnHandlers : PingTick(h)
    \/ \E h \in ConnHandlers : PingWriteBegin(h)
    \/ \E h \in ConnHandlers : PingWriteEnd(h)
    \/ \E h \in ConnHandlers : clientsMutex = "free" /\ Unregister(h)
    \/ BroadcastLock
    \/ BroadcastWriteBegin
    \/ BroadcastWriteEnd
    \/ BroadcastUnlock
    \/ GetStatus
    \/ GetStatusReturn

SpecConn == InitHub /\ [][NextConn]_vars

\* ------------------------------------------------------- scheduler lifecycle

\* A step of Start or Stop: no invocation moves, no table changes.
SchedFrame ==
    /\ returned' = Nil /\ logged' = Nil /\ saved' = Nil
    /\ UNCHANGED <<today, hour, resetDue, ledgerVars, api_calls, providerCalls,
                   storeVars, pc, loc, batch, inv, selVars, cacheVars, hubVars,
                   exited, cacheUp, body, fetched, connVars, migVars, seedVars,
                   lastDataSync>>

\* SchedulerService.Stop lines 97-110: on a running scheduler the context is
\* cancelled and the cron stopped; its entries stay, and a job goroutine the
\* cron has already started goes on.
Stop ==
    /\ isRunning
    /\ cancelled' = TRUE
    /\ isRunning' = FALSE
    /\ UNCHANGED <<syncDue, entries, due>>
    /\ SchedFrame

\* SchedulerService.Start lines 58-94: on a stopped scheduler the three jobs
\* are added to the cron once more (the entries of earlier Starts stay), the
\* cron is started and isRunning set. The context is the one made by
\* NewSchedulerService: a cancelled one stays cancelled.
Start ==
    /\ ~isRunning
    /\ entries < MaxEntries
    /\ entries' = entries + 1
    /\ isRunning' = TRUE
    /\ UNCHANGED <<syncDue, cancelled, due>>
    /\ SchedFrame

\* The running cron reaches the top of the next hour, every goroutine of its
\* last tick having started: it starts one goroutine for each of its sync
\* entries (and reset entries). The model runs them one after the other:
\* the first is due now, `due` counts the others.
CronTick ==
    /\ isRunning
    /\ ~syncDue /\ due = 0
    /\ \/ /\ hour < HoursPerDay - 1
          /\ hour' = hour + 1
          /\ today' = today
          /\ sequenceClean' = sequenceClean
       \/ /\ hour = HoursPerDay - 1
          /\ today < MaxDay
          /\ hour' = 0
          /\ today' = today + 1
          /\ sequenceClean' = FALSE
    /\ syncDue' = TRUE
    /\ resetDue' = TRUE
    /\ due' = entries - 1
    /\ returned' = Nil /\ logged' = Nil /\ saved' = Nil
    /\ UNCHANGED <<rowPresent, api_rate_limits, recorded, api_calls, providerCalls,
                   storeVars, pc, loc, batch, inv, selVars, cacheVars, hubVars,
                   exited, cacheUp, body, fetched, connVars, migVars, seedVars,
                   cancelled, isRunning, entries, lastDataSync>>

\* The job goroutine of a further sync entry of the last tick comes to run.
NextEntry ==
    /\ ~syncDue /\ due > 0
    /\ pc["job"] = "idle"
    /\ syncDue' = TRUE
    /\ due' = due - 1
    /\ UNCHANGED <<cancelled, isRunning, entries>>
    /\ SchedFrame

\* The ledger row exists and allows MaxDailyLimit calls a day.
InitStop ==
    /\ Init
    /\ rowPresent
    /\ api_rate_limits.daily_limit = MaxDailyLimit

\* The hourly job and a batch, with a Stop at any moment.
NextStop ==
    \/ Stop
    \/ syncStockDataJob
    \/ JobSelect
    \/ SyncBatch
    \/ BatchLimit
    \/ BatchSelect
    \/ \E p \in {"job", "batch"} : FetchCheck(p)
    \/ \E p \in {"job", "batch"} : FetchRequest(p)
    \/ \E p \in {"job", "batch"} : FetchLog(p)
    \/ \E p \in {"job", "batch"} : FetchUpdate(p)
    \/ \E p \in {"job", "batch"} : SaveStep(p, {1})

SpecStop == InitStop /\ [][NextStop]_vars

\* ------------------------------------------- scheduler syncs and the cache

\* The hourly job and a manual trigger, with list reads that fill the cache.
NextSync ==
    \/ syncStockDataJob
    \/ JobSelect
    \/ TriggerManualSync
    \/ \E p \in {"job", "manual"} : FetchCheck(p)
    \/ \E p \in {"job", "manual"} : FetchRequest(p)
    \/ \E p \in {"job", "manual"} : FetchLog(p)
    \/ \E p \in {"job", "manual"} : FetchUpdate(p)
    \/ \E p \in {"job", "manual"} : SaveStep(p, {1})
    \/ GetStocksList("list")
    \/ SetStocksList("list")
    \/ ReadReturn("list")

SpecSync == InitCache /\ [][NextSync]_vars

\* The goroutines of the connections alone, with no broadcast pass.
NextPing ==
    \/ \E h \in ConnHandlers : pinger[h].at = "none" /\ HandleWebSocket(h)
    \/ \E h \in ConnHandlers : Register(h)
    \/ \E h \in ConnHandlers : InitialWriteBegin(h)
    \/ \E h \in ConnHandlers : InitialWriteEnd(h)
    \/ \E h \in ConnHandlers : PingTick(h)
    \/ \E h \in ConnHandlers : PingWriteBegin(h)
    \/ \E h \in ConnHandlers : PingWriteEnd(h)
    \/ \E h \in ConnHandlers : Unregister(h)

\* Every goroutine that can take a step does so in the end, and a running
\* ticker ticks; when a peer connects or leaves is not up to the service.
FairPing ==
    \A h \in ConnHandlers :
        /\ WF_vars(Register(h))
        /\ WF_vars(InitialWriteBegin(h))
        /\ WF_vars(InitialWriteEnd(h))
        /\ WF_vars(PingTick(h))
        /\ WF_vars(PingWriteBegin(h))
        /\ WF_vars(PingWriteEnd(h))

SpecPing == InitHub /\ [][NextPing]_vars /\ FairPing

\* ------------------------------------------------ the hourly job over time

\* The hourly job alone, hour after hour.
NextHourly ==
    \/ Tick
    \/ resetRateLimitsJob
    \/ syncStockDataJob
    \/ JobSelect
    \/ FetchCheck("job")
    \/ FetchRequest("job")
    \/ FetchLog("job")
    \/ FetchUpdate("job")
    \/ SaveStep("job", {1})

\* The timer ticks and a job that can take a step takes it.
FairHourly ==
    /\ WF_vars(Tick)
    /\ WF_vars(resetRateLimitsJob)
    /\ WF_vars(syncStockDataJob)
    /\ WF_vars(JobSelect)
    /\ WF_vars(FetchCheck("job"))
    /\ WF_vars(FetchRequest("job"))
    /\ WF_vars(FetchLog("job"))
    /\ WF_vars(FetchUpdate("job"))
    /\ WF_vars(SaveStep("job", {1}))

SpecHourly == InitStop /\ [][NextHourly]_vars /\ FairHourly

\* The scheduler stopped and started again, the hourly job and the reset job.
NextRestart ==
    \/ Start
    \/ Stop
    \/ CronTick
    \/ NextEntry
    \/ resetRateLimitsJob
    \/ syncStockDataJob
    \/ JobSelect
    \/ FetchCheck("job")
    \/ FetchRequest("job")
    \/ FetchLog("job")
    \/ FetchUpdate("job")
    \/ SaveStep("job", {1})

SpecRestart == InitStop /\ [][NextRestart]_vars

\* --------------------------------------------------------------- migrator

MaxVersion == 3        \* version numbers of the migration files
MaxFiles == 3          \* .sql files in the migrations directory

\* The .sql files a migrations directory may hold: <version>_<name>.sql, two
\* names per version, and one down migration.
DirFiles ==
    [Version : 1..MaxVersion, Name : {"a", "b"}, Down : {FALSE}]
        \cup {[Version |-> 1, Name |-> "a", Down |-> TRUE]}

Dirs == {d \in SUBSET DirFiles : Cardinality(d) <= MaxFiles}

\* The orders of a set of migrations.
Orders(S) ==
    {q \in [1..Cardinality(S) -> S] : \A i, j \in DOMAIN q : q[i] = q[j] => i = j}

\* sort.Slice of loadMigrations lines 109-111: the migrations by version; the
\* sort is not stable, so files of one version come in any order.
RECURSIVE SortByVersion(_, _)
SortByVersion(S, v) ==
    IF v > MaxVersion THEN {<<>>}
    ELSE {head \o tail : head \in Orders({m \in S : m.Version = v}),
                         tail \in SortByVersion(S, v + 1)}

\* loadMigrations without its sort: the files in any order.
loadMigrations_Unsorted(dir) ==
    Orders({[Version |-> f.Version, Name |-> f.Name] :
              f \in {g \in dir : ~g.Down}})

\* Migrator.loadMigrations lines 66-114: the up migrations of the directory,
\* sorted by version.
loadMigrations(dir) ==
    SortByVersion({[Version |-> f.Version, Name |-> f.Name] :
                     f \in {g \in dir : ~g.Down}}, 1)

\* A step of the migrator: the service's state is left alone.
MigFrame ==
    /\ returned' = Nil /\ logged' = Nil /\ saved' = Nil
    /\ UNCHANGED <<clockVars, ledgerVars, api_calls, providerCalls, storeVars,
                   pc, loc, batch, inv, selVars, cacheVars, hubVars,
                   exited, cacheUp, body, fetched, connVars, schedVars, seedVars>>

\* Up's `return fmt.Errorf(...)`: the run is over.
UpFailed(u) == [NoUp EXCEPT !.result = Some("failed")]

\* Migrator.Up lines 117-129: the table is ensured, the applied versions are
\* read once, and the directory is loaded; an error of any of the three ends
\* the run.
UpBegin ==
    /\ up.at = "idle"
    /\ \E ok \in BOOLEAN, dir \in Dirs :
         IF ok
         THEN \E q \in loadMigrations(dir) :
                up' = [at |-> "loop", applied |-> schema_migrations,
                       migrations |-> q, i |-> 1, run |-> <<>>, result |-> Nil]
         ELSE up' = UpFailed(up)
    /\ UNCHANGED <<schema_migrations, committed>>
    /\ MigFrame

\* What the transaction of lines 139-157 can come to: Begin, the migration's
\* SQL, the INSERT into schema_migrations or Commit fails, or all succeed.
\* version is the table's primary key: the INSERT of a recorded version fails.
TxOutcomes(m) ==
    IF m.Version \in schema_migrations
    THEN {"begin", "exec", "record"}
    ELSE {"begin", "exec", "record", "commit", "ok"}

\* Migrator.Up lines 131-160, one iteration: a version of the snapshot is
\* skipped; otherwise the SQL and the schema_migrations row are committed in
\* one transaction.  A Commit that reports an error may or may not have taken
\* effect.
UpStep ==
    /\ up.at = "loop"
    /\ up.i <= Len(up.migrations)
    /\ LET m == up.migrations[up.i] IN
         IF m.Version \in up.applied
         THEN /\ up' = [up EXCEPT !.i = @ + 1]
              /\ UNCHANGED <<schema_migrations, committed>>
         ELSE \E o \in TxOutcomes(m), landed \in BOOLEAN :
                /\ o # "commit" => landed = (o = "ok")
                /\ IF landed
                   THEN /\ schema_migrations' = schema_migrations \cup {m.Version}
                        /\ committed' = Append(committed, m)
                   ELSE UNCHANGED <<schema_migrations, committed>>
                /\ up' = IF o = "ok"
                         THEN [up EXCEPT !.i = @ + 1,
                                         !.run = Append(@, m.Version)]
                         ELSE UpFailed(up)
    /\ MigFrame

\* Migrator.Up line 162: every migration was applied or skipped.
UpReturn ==
    /\ up.at = "loop"
    /\ up.i > Len(up.migrations)
    /\ up' = [NoUp EXCEPT !.result = Some("nil")]
    /\ UNCHANGED <<schema_migrations, committed>>
    /\ MigFrame

NextMigrate ==
    \/ UpBegin
    \/ UpStep
    \/ UpReturn

\* cmd/migrate run again and again on one database.
SpecMigrate == InitStop /\ [][NextMigrate]_vars

\* ----------------------------------------------------------------- seeder

seedLimit == 10        \* getStocksToSeed: LIMIT 10

\* Strings the seeder transforms are sequences of characters.
UpperCase == <<"A", "B", "C", "D", "E", "F", "G", "H", "I", "J", "K", "L", "M",
               "N", "O", "P", "Q", "R", "S", "T", "U", "V", "W", "X", "Y", "Z">>
LowerCase == <<"a", "b", "c", "d", "e", "f", "g", "h", "i", "j", "k", "l", "m",
               "n", "o", "p", "q", "r", "s", "t", "u", "v", "w", "x", "y", "z">>
WhiteSpace == {" ", "\t", "\n", "\r"}

\* strings.ToLower
ToLower(str) ==
    [k \in DOMAIN str |->
        IF \E u \in DOMAIN UpperCase : UpperCase[u] = str[k]
        THEN LowerCase[CHOOSE u \in DOMAIN UpperCase : UpperCase[u] = str[k]]
        ELSE str[k]]

\* strings.TrimSpace
TrimSpace(str) ==
    LET inked == {k \in DOMAIN str : str[k] \notin WhiteSpace}
    IN IF inked = {} THEN <<>>
       ELSE LET first == CHOOSE k \in inked : \A m \in inked : k <= m
                last == CHOOSE k \in inked : \A m \in inked : m <= k
            IN SubSeq(str, first, last)

\* bufio.Reader.ReadString('\n'): the input up to and including the first
\* line feed; io.EOF with what was read when the input ends before one.
ReadString(in) ==
    LET feeds == {k \in DOMAIN in : in[k] = "\n"}
    IN IF feeds = {} THEN [data |-> in, err |-> TRUE]
       ELSE [data |-> SubSeq(in, 1, CHOOSE k \in feeds : \A m \in feeds : k <= m),
             err |-> FALSE]

Yes == <<"y", "e", "s">>
Production == <<"p", "r", "o", "d", "u", "c", "t", "i", "o", "n">>

\* What the operator may have on standard input at the prompt.
Stdins ==
    {<<"y", "e", "s", "\n">>, <<"y", "\n">>, <<"Y", "\n">>,
     <<" ", "Y", "E", "S", " ", "\n">>, <<"y", "\r", "\n">>,
     <<"n", "o", "\n">>, <<"\n">>, <<"y", "e", "\n">>,
     <<"y", "e", "s", " ", "y", "\n">>, <<"n", "\n", "y", "\n">>,
     <<"y", "e", "s">>, <<>>}

\* Values of NODE_ENV; the empty one stands for an unset variable.
NodeEnvs ==
    {<<>>, Production, <<"P", "r", "o", "d", "u", "c", "t", "i", "o", "n">>,
     <<"p", "r", "o", "d">>, <<"t", "e", "s", "t">>}

\* main lines 27-30
Environment(nodeEnv) ==
    IF ToLower(nodeEnv) = <<>>
    THEN <<"d", "e", "v", "e", "l", "o", "p", "m", "e", "n", "t">>
    ELSE ToLower(nodeEnv)

\* askForPermission, were an empty line to count as consent.
askForPermission_EmptyIsYes(in) ==
    LET r == ReadString(in)
        answer == TrimSpace(ToLower(r.data))
    IN IF r.err THEN FALSE
       ELSE answer = Yes \/ answer = <<"y">> \/ answer = <<>>

\* askForPermission lines 234-258: a read error is a refusal.
askForPermission(in) ==
    LET r == ReadString(in)
        answer == TrimSpace(ToLower(r.data))
    IN IF r.err THEN FALSE
       ELSE answer = Yes \/ answer = <<"y">>

\* checkExistingData lines 226-231: SELECT COUNT(*) FROM daily_prices
checkExistingData ==
    Cardinality(UNION {{<<s, d>> : d \in DOMAIN daily_prices[s]} : s \in Symbols})

\* getStocksToSeed lines 139-164: the active symbols in symbol order, at most
\* seedLimit of them.
getStocksToSeed ==
    LET active == {s \in Symbols : stocks[s].is_active}
        n == Min(seedLimit, Cardinality(active))
    IN CHOOSE q \in [1..n -> active] :
          /\ \A i, j \in 1..n : i < j => Rank(q[i]) < Rank(q[j])
          /\ \A s \in active \ {q[i] : i \in 1..n} :
                \A i \in 1..n : Rank(q[i]) < Rank(s)

\* A step of the seeder that leaves the provider ledger and the store alone.
SeedFrame ==
    /\ returned' = Nil /\ logged' = Nil /\ saved' = Nil
    /\ UNCHANGED <<clockVars, ledgerVars, api_calls, providerCalls, stocks,
                   pc, loc, batch, inv, selVars, cacheVars, hubVars,
                   exited, cacheUp, body, fetched, connVars, schedVars, migVars>>

\* The seeder's process ends: log.Fatal or main's return.
SeedExit(s, how) == [s EXCEPT !.at = "idle", !.result = Some(how)]

\* main lines 17-81 up to the prompt: without an API key, a database or the
\* count of price records the seeder aborts; so it does on existing records in
\* production; elsewhere it asks, and with no records it goes on to seed.
SeedStart ==
    /\ seed.at = "idle"
    /\ \E nodeEnv \in NodeEnvs, ok \in BOOLEAN :
         LET run == [NoSeed EXCEPT !.env = Environment(nodeEnv),
                                   !.before = daily_prices]
         IN seed' = IF ~ok THEN SeedExit(run, "fatal")
                    ELSE IF checkExistingData > 0
                    THEN IF run.env = Production
                         THEN SeedExit(run, "refused")
                         ELSE [run EXCEPT !.at = "ask"]
                    ELSE [run EXCEPT !.at = "stocks"]
    /\ UNCHANGED daily_prices
    /\ SeedFrame

\* main lines 78-81: the operator's answer.
SeedAsk ==
    /\ seed.at = "ask"
    /\ \E in \in Stdins :
         seed' = IF askForPermission(in)
                 THEN [seed EXCEPT !.at = "clear", !.input = Some(in)]
                 ELSE SeedExit([seed EXCEPT !.input = Some(in)], "cancelled")
    /\ UNCHANGED daily_prices
    /\ SeedFrame

\* main lines 84-88 with clearExistingData lines 260-274: DELETE FROM
\* daily_prices, or the abort when it fails.
SeedClear ==
    /\ seed.at = "clear"
    /\ \E ok \in BOOLEAN :
         IF ok
         THEN /\ daily_prices' = [s \in Symbols |-> <<>>]
              /\ seed' = [seed EXCEPT !.at = "stocks"]
         ELSE /\ daily_prices' = daily_prices
              /\ seed' = SeedExit(seed, "fatal")
    /\ SeedFrame

\* main lines 92-100: the stocks to seed.
SeedStocks ==
    /\ seed.at = "stocks"
    /\ \E ok \in BOOLEAN :
         seed' = IF ok THEN [seed EXCEPT !.at = "loop", !.i = 1,
                                         !.stocks = getStocksToSeed]
                 ELSE SeedExit(seed, "fatal")
    /\ UNCHANGED daily_prices
    /\ SeedFrame

\* main lines 111-128 with seedStockData lines 166-178, one stock:
\* FetchDailyData (the gate, the provider call, LogAPICall) and, on a series,
\* SaveHistoricalData; the stock counts as failed on any error.
SeedStock ==
    /\ seed.at = "loop"
    /\ seed.i <= Len(seed.stocks)
    /\ \E gate, upd, lookup \in ReadOutcomes, logOk \in BOOLEAN,
          kind \in RespKinds, failed \in FailedRowSets :
         LET symbol == seed.stocks[seed.i]
             g == CanMakeRequest(gate)
             called == ~g.err /\ g.canMake
             counted == called /\ logOk /\ upd = "ok" /\ rowPresent
             e == IF ~called THEN "rate_limited" ELSE FetchError(kind)
             r == SaveHistoricalData(symbol, 1, lookup, failed)
             good == e = "none" /\ ~r.err
         IN /\ called => TotalCalls < MaxCalls
            /\ ~called => (upd = "ok" /\ logOk /\ kind = "series")
            /\ e # "none" => (lookup = "ok" /\ failed = {})
            /\ providerCalls' = IF called
                                THEN [providerCalls EXCEPT ![today] = @ + 1]
                                ELSE providerCalls
            /\ api_calls' = IF called /\ logOk THEN api_calls + 1 ELSE api_calls
            /\ api_rate_limits' = IF counted
                                  THEN updateRateLimit(api_rate_limits, today, hour)
                                  ELSE api_rate_limits
            /\ recorded' = IF counted THEN recorded + 1 ELSE recorded
            /\ daily_prices' = IF e = "none" THEN r.prices ELSE daily_prices
            /\ seed' = [seed EXCEPT !.i = @ + 1,
                                    !.successful = IF good THEN @ + 1 ELSE @,
                                    !.failed = IF good THEN @ ELSE @ + 1]
    /\ returned' = Nil /\ logged' = Nil /\ saved' = Nil
    /\ UNCHANGED <<clockVars, rowPresent, sequenceClean, stocks,
                   pc, loc, batch, inv, selVars, cacheVars, hubVars,
                   exited, cacheUp, body, fetched, connVars, schedVars, migVars>>

\* main lines 130-137: the loop is over.
SeedDone ==
    /\ seed.at = "loop"
    /\ seed.i > Len(seed.stocks)
    /\ seed' = SeedExit(seed, "done")
    /\ UNCHANGED daily_prices
    /\ SeedFrame

NextSeed ==
    \/ SeedStart
    \/ SeedAsk
    \/ SeedClear
    \/ SeedStocks
    \/ SeedStock
    \/ SeedDone

\* cmd/seed run again and again on one database.
SpecSeed == InitStop /\ [][NextSeed]_vars

\* ------------------------------------------------------------------ claims

\* Callers whose physical call has been made and whose LogAPICall has not ended.
InFlight == {p \in Callers : pc[p] \in {"fetch_log", "fetch_update"}}

\* Every finished LogAPICall of the behaviour incremented the counters.
NoLostRecord == TotalCalls = recorded + Cardinality(InFlight)

\* C1: with every finished call counted, whatever the interleaving of the
\* callers' CanMakeRequest reads and counter increments, the provider calls of
\* a day never exceed daily_limit (so of two callers racing for the last unit
\* at most one calls the provider).
C1_NoOverspend ==
    NoLostRecord => \A d \in 0..MaxDay : providerCalls[d] <= api_rate_limits.daily_limit

C8_ZeroedOncePerDate ==
    [][(api_rate_limits'.current_daily_count < api_rate_limits.current_daily_count)
         => /\ api_rate_limits.last_reset_date < today'
            /\ api_rate_limits'.last_reset_date = today'
            /\ api_rate_limits'.current_hourly_count = 0]_vars

\* C3: every LogAPICall that follows a physical call wrote one api_calls row
\* and raised the daily and the hourly count by exactly one.
C3_CountedExactlyOnce ==
    logged # Nil =>
        /\ logged[1].logDelta = 1
        /\ logged[1].dailyDelta = 1
        /\ logged[1].hourlyDelta = 1

\* The row read now denies the request: the quota is exhausted.
Exhausted == rowPresent /\ ~APIRateLimit_CanMakeRequest(api_rate_limits)

\* Caller p is invoked in this step.
Invoked(p) ==
    /\ pc[p] = "idle"
    /\ \/ pc'[p] # "idle"
       \/ (returned' # Nil /\ returned'[1].caller = p)

\* The invocation of p ends in the step that starts it, having made no
\* provider call, written no api_calls row and left the row as it was.
EndsUntouched(p) ==
    /\ pc'[p] = "idle"
    /\ returned'[1].calls = 0
    /\ returned'[1].err \in {"rate_limited", "check_failed"}
    /\ UNCHANGED <<api_calls, api_rate_limits, providerCalls>>

BatchRun ==
    IF returned # Nil /\ returned[1].caller = "batch" THEN returned[1].run ELSE batch

\* Provider calls of the SyncBatch in progress, or of the one that just returned.
BatchCalls ==
    IF returned # Nil /\ returned[1].caller = "batch" THEN returned[1].calls
    ELSE inv["batch"]

\* C5: a quota denial in mid-batch is no per-entity result: no entry of the
\* batch's result list carries it (the batch halts instead).
C5_DenialHaltsBatch ==
    \A k \in 1..Len(BatchRun.Stocks) : BatchRun.Stocks[k].ErrorMessage # "rate_limited"

\* C6: a batch that read remainingCalls > 0 selects, attempts and calls the
\* provider for at most min(maxStocks asked, remainingCalls) stocks; its results
\* are for the first candidates only.
C6_AttemptsWithinRemaining ==
    LET b == BatchRun
        cap == Min(b.requested, b.remainingCalls)
    IN b.remainingCalls > 0 =>
          /\ Len(b.pendingStocks) <= cap
          /\ b.TotalAttempted <= cap
          /\ BatchCalls <= cap
          /\ b.Failed <= b.TotalAttempted
          /\ Len(b.Stocks) <= Len(b.pendingStocks)

\* C6 witness: a batch asked for more than remained and attempted what
\* remained, while another caller used up the quota under it.
C6_Witness ==
    /\ returned # Nil
    /\ returned[1].caller = "batch"
    /\ returned[1].result # Nil
    /\ returned[1].run.remainingCalls > 0
    /\ returned[1].run.requested > returned[1].run.remainingCalls
    /\ returned[1].run.TotalAttempted = returned[1].run.remainingCalls
    /\ returned[1].run.Stocks[1].ErrorMessage = "rate_limited"

\* C7: a returned batch attempted every candidate in order, whatever failed:
\* attempted = succeeded + failed = number of per-stock results = candidates.
C7_FailureDoesNotStopBatch ==
    (returned # Nil /\ returned[1].caller = "batch" /\ returned[1].result # Nil) =>
        LET r == returned[1].result[1]
            q == returned[1].run.pendingStocks
        IN /\ r.TotalAttempted = r.Successful + r.Failed
           /\ r.TotalAttempted = Len(r.Stocks)
           /\ Len(r.Stocks) = Len(q)
           /\ \A k \in 1..Len(q) : r.Stocks[k].Symbol = q[k]

\* C7 witness: the first stock failed on a provider or save error and the
\* second was synced.
C7_Witness ==
    /\ returned # Nil
    /\ returned[1].caller = "batch"
    /\ returned[1].result # Nil
    /\ Len(returned[1].result[1].Stocks) = 2
    /\ ~returned[1].result[1].Stocks[1].Success
    /\ returned[1].result[1].Stocks[1].ErrorMessage
          \in {"request_failed", "api_note", "no_data", "save_failed"}
    /\ returned[1].result[1].Stocks[2].Success

\* C9: an unreadable row makes CanMakeRequest answer no; a caller about to call
\* the provider has read the row; an invocation that ends on the failed read
\* made no provider call; with no row at all there is never a provider call.
C9_FailClosed ==
    /\ \A outcome \in ReadOutcomes :
          (outcome # "ok" \/ ~rowPresent) => ~CanMakeRequest(outcome).canMake
    /\ \A p \in Callers : pc[p] = "fetch_request" => loc[p].readOutcome = "ok"
    /\ (returned # Nil /\ returned[1].err = "check_failed") => returned[1].calls = 0
    /\ ~rowPresent => TotalCalls = 0

\* C9 witness: the periodic job ended on a storage error of the read while the
\* row exists.
C9_Witness ==
    /\ returned # Nil
    /\ returned[1].caller = "job"
    /\ returned[1].err = "check_failed"
    /\ rowPresent

\* The order the selector is specified to give: zero stored rows first, then
\* descending market_cap with unknown after known, then the symbol.
SpecBefore(a, b) ==
    LET cold(s) == price_count(s) = 0
        capA == stocks[a].market_cap
        capB == stocks[b].market_cap
    IN \/ (cold(a) /\ ~cold(b))
       \/ /\ cold(a) = cold(b)
          /\ \/ (capA # NULL /\ capB = NULL)
             \/ (capA # NULL /\ capB # NULL /\ capA > capB)
             \/ (capA = capB /\ Rank(a) < Rank(b))

\* C10: the sequence GetPendingStocks returns holds the first min(limit,
\* pending) pending stocks in the specified order: zero-history stocks before
\* all others, then descending market_cap with unknown last, then by symbol.
C10_PendingOrder ==
    selLimit > 0 =>
        /\ Len(selOut) = Min(selLimit, Cardinality(PendingRows))
        /\ \A i, j \in 1..Len(selOut) : i < j => SpecBefore(selOut[i], selOut[j])
        /\ \A s \in PendingRows \ {selOut[i] : i \in 1..Len(selOut)} :
              \A i \in 1..Len(selOut) : SpecBefore(selOut[i], s)

\* C11: with the stock and price tables unchanged, two GetPendingStocks calls
\* with the same limit return the same sequence, also when market caps tie.
C11_SelectorDeterministic ==
    [][(selLimit > 0 /\ selLimit' = selLimit /\ UNCHANGED storeVars)
          => selOut' = selOut]_vars

\* The rows of `rows` are exactly the series of price `data`.
HoldsSeries(rows, data) ==
    /\ DOMAIN rows = Series
    /\ \A d \in Series : rows[d] = data

\* C12: one SaveHistoricalData call is all or nothing: after it the stock's
\* table either is what it was or holds every date of the series saved.
C12_SaveAllOrNothing ==
    saved # Nil =>
        \/ daily_prices[saved[1].symbol] = saved[1].before
        \/ \A d \in Series :
              /\ d \in DOMAIN daily_prices[saved[1].symbol]
              /\ daily_prices[saved[1].symbol][d] = saved[1].data

\* C13: a save that writes every row of a series into an empty table counts
\* them all as inserted; one that writes every row of the series the table
\* already holds leaves the table as it was and counts them all as updated.
C13_UpsertIdempotent ==
    (saved # Nil /\ ~saved[1].err
        /\ saved[1].inserted + saved[1].updated = SeriesLen) =>
        /\ saved[1].before = <<>> =>
              /\ saved[1].inserted = SeriesLen
              /\ saved[1].updated = 0
        /\ HoldsSeries(saved[1].before, saved[1].data) =>
              /\ daily_prices[saved[1].symbol] = saved[1].before
              /\ saved[1].inserted = 0
              /\ saved[1].updated = SeriesLen

\* Some sync has saved history and reported success (every save that writes a
\* row returns nil to its caller in the same step).
SyncReported == \E s \in Symbols : daily_prices[s] # <<>>

\* C14: once a sync has been reported successful, a read of the stock list or
\* of a sector view that is served from the cache returns what the database
\* holds, not a list computed from the history before the sync; this covers
\* the reader that missed the cache before the write and stored its result
\* after the invalidation.
C14_NoStaleCachedRead ==
    [][\A r \in Readers :
         (SyncReported /\ ~reader[r].hit /\ reader'[r].hit)
             => reader'[r].val = Some(fetchAllStocksFromDatabase)]_vars

\* C15: in the state that follows a save reporting no error, whichever of the
\* job, the manual trigger and SyncBatch ran it, the completeness flag of the
\* stock equals (stored row count >= 30).
C15_FlagFollowsRowCount ==
    (saved # Nil /\ ~saved[1].err) =>
        stocks[saved[1].symbol].has_sufficient_data
            = (price_count(saved[1].symbol) >= MinHistoryRows)

\* The job's invocation returns in this step.
JobReturns == returned' # Nil /\ returned'[1].caller = "job"

\* C16 as stated: every firing of the hourly sync entry has selected exactly
\* one stock when it returns, and has made at most one provider call.
C16_ExactlyOneSelected ==
    [][JobReturns => (loc["job"].symbol \in Symbols /\ inv["job"] <= 1)]_vars

\* C16, amended: a firing of the hourly sync entry selects at most one stock
\* (none when the quota check denies or fails, or the selection finds nothing;
\* once selected the stock does not change) and makes at most one provider
\* call, whatever quota remains and however many stocks lack history.
C16_AtMostOneSelectedAndFetched ==
    [][/\ inv'["job"] <= 1
       /\ JobReturns => returned'[1].calls <= 1
       /\ (loc["job"].symbol # "" /\ pc'["job"] # "idle")
             => loc'["job"].symbol = loc["job"].symbol]_vars

\* The job returned after one successful fetch and save, with quota left on
\* the row and another stock still without history.
C16_Witness ==
    /\ returned # Nil /\ returned[1].caller = "job"
    /\ returned[1].err = "none" /\ returned[1].calls = 1
    /\ rowPresent
    /\ api_rate_limits.current_daily_count < api_rate_limits.daily_limit
    /\ \E s \in Symbols : daily_prices[s] = <<>>

\* C17: an attempt made while the set holds maxConnections (or more)
\* subscribers is answered HTTP 429 "Too many connections" with no upgrade,
\* and the set and its count are the same after the attempt.
C17_FullHubRejects ==
    [][(response' # Nil /\ Cardinality(clients) >= maxConnections) =>
          /\ response'[1].status = 429
          /\ response'[1].error = "Too many connections"
          /\ ~response'[1].upgraded
          /\ handler' = handler
          /\ clients' = clients]_vars

\* An attempt was just rejected with exactly maxConnections subscribers registered.
C17_Witness ==
    /\ response # Nil /\ response[1].status = 429
    /\ response[1].current = maxConnections
    /\ Cardinality(clients) = maxConnections

\* C18: the number of registered subscribers never exceeds maxConnections,
\* admissions running concurrently included.
C18_NeverOverLimit == Cardinality(clients) <= maxConnections

\* C19: the first data message a connection carries is the 'initial'
\* snapshot: no price_update is written to it before, whatever the
\* interleaving of its registration with a broadcast pass.
C19_InitialFirst == \A h \in Handlers : conns[h].first \in {"none", "initial"}

\* C20: in the state that follows a broadcast pass, every subscriber whose
\* write failed is closed and no longer registered, and every other subscriber
\* registered when the pass began was written to in that pass and is still
\* registered.
C20_PassRemovesOnlyFailed ==
    pass # Nil =>
        /\ pass[1].written \cup pass[1].clientsToRemove = pass[1].before
        /\ pass[1].written \cap pass[1].clientsToRemove = {}
        /\ clients = pass[1].written
        /\ \A c \in pass[1].clientsToRemove : ~conns[c].open /\ c \notin clients
        /\ \A c \in pass[1].written : conns[c].open /\ conns[c].first # "none"

\* A pass over maxConnections subscribers in which one write failed and the
\* others succeeded.
C20_Witness ==
    /\ pass # Nil
    /\ Cardinality(pass[1].before) = maxConnections
    /\ Cardinality(pass[1].clientsToRemove) = 1
    /\ Cardinality(pass[1].written) = maxConnections - 1

\* C21: when a read loop unregisters its connection, the set afterwards is the
\* set before without that connection and nothing else; if a broadcast pass had
\* already closed and removed the connection, the unregister removes nothing
\* and the count is unchanged, so both paths together drop the count by one.
C21_RemovedExactlyOnce ==
    unregistered # Nil =>
        LET h == unregistered[1].handler
            before == unregistered[1].before
        IN /\ clients = before \ {h}
           /\ h \in before => Cardinality(clients) = Cardinality(before) - 1
           /\ h \notin before => Cardinality(clients) = Cardinality(before)
           /\ unregistered[1].closedByPass => h \notin before

\* A read loop unregistered a connection that a broadcast pass had already
\* closed and removed, while other subscribers were registered.
C21_Witness ==
    /\ unregistered # Nil
    /\ unregistered[1].closedByPass
    /\ unregistered[1].handler \notin unregistered[1].before
    /\ clients # {}

\* The connection of h is registered and its read deadline has passed with
\* no message and no pong.
Silent(h) ==
    h \in clients /\ handler[h] = "reading" /\ conns[h].silentFor = ReadDeadline

C23_ShutdownNotMidWrite == exited => \A p \in Callers : pc[p] # "save"

\* A 200 answer with no time series whose envelope carries a rate-limit note
\* or an informational note.
CarriesNote(r) ==
    /\ r.status = 200 /\ r.parses /\ ~r.series
    /\ r.keys \cap {"Note", "Information"} # {}

\* The errors FetchDailyData returns for malformed and for empty payloads.
DataErrors ==
    {FetchDailyData_Error([status |-> 200, parses |-> FALSE, series |-> FALSE,
                           keys |-> {}]),
     FetchDailyData_Error([status |-> 200, parses |-> TRUE, series |-> FALSE,
                           keys |-> {}])}

\* C24: for a 200 answer carrying a rate-limit or informational note in place
\* of a series, FetchDailyData returns an error, and not the one it returns
\* for a malformed or an empty payload; for those it returns an error too.
C24_NoteDistinctFromEmpty ==
    (fetched # Nil /\ body[1].status = 200 /\ ~body[1].series) =>
        /\ fetched[1].err # "none" /\ ~fetched[1].data
        /\ CarriesNote(body[1]) => fetched[1].err \notin DataErrors

\* C25: in the state that follows a SaveHistoricalData in which the write of
\* some row failed, the save has returned an error to its caller, and the
\* invocation that returns in that step (job, manual trigger) reports an error
\* too; the stock's sync is not reported as successful.
C25_RowFailureReported ==
    (saved # Nil /\ saved[1].inserted + saved[1].updated < SeriesLen) =>
        /\ saved[1].err
        /\ returned # Nil => returned[1].err # "none"

\* C26: with no reachable cache, no read is served from the cache, every read
\* goes to the database and returns the list it read there, and a manual sync
\* whose save reported no error returns no error; nothing is ever stored in
\* the cache.
C26_NoCacheDegradesToMiss ==
    [][~cacheUp =>
         /\ cache' = EmptyCache
         /\ \A r \in Readers :
              /\ ~reader'[r].hit
              /\ (reader[r].pc # "fetched" /\ reader'[r].pc = "fetched")
                    => reader'[r].val = Some(fetchAllStocksFromDatabase)
              /\ (reader[r].pc # "done" /\ reader'[r].pc = "done")
                    => (reader'[r].val = reader[r].val /\ reader[r].val # Nil)
         /\ (saved' # Nil /\ ~saved'[1].err)
               => (returned' # Nil /\ returned'[1].err = "none")]_vars

\* Without a reachable cache a manual sync has stored history and a sector
\* read that followed it ends with the list the database holds.
C26_Witness ==
    /\ ~cacheUp
    /\ SyncReported
    /\ reader["sector"].pc = "done"
    /\ reader["sector"].val = Some(fetchAllStocksFromDatabase)
    /\ \E s \in Symbols : fetchAllStocksFromDatabase[s] # 0

\* C27: the stand-alone fetcher takes the stocks in this order: those with no
\* price data first; within each group larger market cap first, unknown market
\* cap last; ties alphabetically by symbol.
C27_FetcherOrder ==
    \A i, j \in 1..Len(prioritized) :
        i < j => SpecBefore(prioritized[i], prioritized[j])

\* All three stocks were returned, among them one of unknown market cap and
\* two of equal market cap in the same group.
C27_Witness ==
    /\ Len(prioritized) = 3
    /\ \E i \in 1..3 : stocks[prioritized[i]].market_cap = NULL
    /\ \E i, j \in 1..3 :
         /\ i < j
         /\ stocks[prioritized[i]].market_cap = stocks[prioritized[j]].market_cap
         /\ stocks[prioritized[i]].market_cap # NULL
         /\ (price_count(prioritized[i]) = 0) = (price_count(prioritized[j]) = 0)
    /\ \E i \in 1..3 : price_count(prioritized[i]) = 0
    /\ \E i \in 1..3 : price_count(prioritized[i]) > 0

\* C28: a step that resets the row for a new hour of the date it was last
\* reset on (by the reset job, or by the trigger under a counter update) sets
\* last_reset_hour to the hour and zeroes the hourly count (the update's own
\* increment aside), and leaves last_reset_date and the daily count as they
\* were (the update's own increment aside).
C28_HourResetLeavesDay ==
    [][(/\ api_rate_limits.last_reset_date = today'
        /\ api_rate_limits'.last_reset_hour # api_rate_limits.last_reset_hour)
         => /\ api_rate_limits'.last_reset_hour = hour'
            /\ api_rate_limits'.last_reset_date = api_rate_limits.last_reset_date
            /\ api_rate_limits'.current_hourly_count \in {0, 1}
            /\ api_rate_limits'.current_daily_count
                  \in {api_rate_limits.current_daily_count,
                       api_rate_limits.current_daily_count + 1}]_vars

\* Caller p makes a provider call in this step.
Calls(p) == inv'[p] = inv[p] + 1

\* C29: every provider call is made by a FetchDailyData that has just read
\* the ledger row itself and was allowed by it; in a batch that read comes
\* after the results of all earlier stocks of the batch were appended, so no
\* call rests on the check made at the start of the batch.
C29_OwnCheckBeforeEachFetch ==
    [][\A p \in Callers :
         Calls(p) =>
            /\ pc[p] = "fetch_request"
            /\ loc[p].readOutcome = "ok"
            /\ p = "batch" =>
                  /\ batch.TotalAttempted = batch.i - 1
                  /\ inv[p] <= batch.TotalAttempted]_vars

\* The batch has made the provider call for its second stock.
C29_Witness ==
    /\ inv["batch"] = 2
    /\ pc["batch"] = "fetch_log"
    /\ batch.i = 2

\* C30: in the state that follows a save reporting no error, by whichever
\* entry point, the cache was flushed after the history write: a sync is
\* reported successful only once quota check, fetch, write and invalidation
\* have happened in that order.
C30_SuccessAfterInvalidation ==
    (saved # Nil /\ ~saved[1].err) => saved[1].invalidated

\* C31: no goroutine is inside a connection write or a store query while it
\* holds the subscriber-set lock or the scheduler's state lock.
C31_NoIOUnderLock == \A g \in InIO : Held(g) = {}

\* The goroutines that write price updates to the subscribers.
UpdateWriters == UNION {writing[h] : h \in Handlers} \ {"HandleWebSocket", "ping"}

\* C32: a periodic update is written to the subscribers only by the consumer
\* of the broadcast channel, handleBroadcast, never by the goroutine that
\* produced the update.
C32_OnlyConsumerWrites == UpdateWriters \subseteq {"handleBroadcast"}

\* Caller p starts the fetch of an entity in this step: it enters
\* FetchDailyData for a symbol.
StartsFetch(p) == pc[p] # "fetch_check" /\ pc'[p] = "fetch_check"

\* C33: once the scheduler's context has been cancelled, a job the tick
\* starts returns without going on to its quota check, and a batch in flight
\* starts the fetch of no further stock (the fetch it is in may complete).
C33_NoFetchAfterCancel ==
    [][cancelled =>
         /\ pc["job"] = "idle" => pc'["job"] = "idle"
         /\ ~StartsFetch("batch")]_vars

\* Invocation p of the scheduler takes a step.
Moves(p) ==
    \/ pc'[p] # pc[p] \/ loc'[p] # loc[p]
    \/ (returned' # Nil /\ returned'[1].caller = p)

\* The step ends a save by p that returned no error.
SavedBy(p) == saved' # Nil /\ saved'[1].caller = p /\ ~saved'[1].err

\* The step ends a save by p that stored every row of the fetched series.
StoredAllBy(p) ==
    /\ SavedBy(p)
    /\ saved'[1].inserted + saved'[1].updated = SeriesLen

LivePing(h) == pinger[h].at # "none"

\* C35: once the handler of a connection has returned (the subscriber is
\* unregistered), the ping goroutine it started ends, so the live ping
\* goroutines do not stay more numerous than the registered subscribers.
C35_PingGoroutineEnds ==
    \A h \in ConnHandlers :
        (handler[h] = "idle" /\ LivePing(h)) ~> ~LivePing(h)

\* The returns of a job that did not get as far as fetching a stock.
NoFetchReturns == {"cancelled", "check_failed", "rate_limited", "select_failed",
                   "no_stock"}

\* Every run of the job finds quota and a stock to fetch.
QuotaAvailable ==
    [](returned # Nil /\ returned[1].caller = "job"
          => returned[1].err \notin NoFetchReturns)

\* The job has run to a provider call as often as the behaviour allows.
EveryAttemptMade == <>(TotalCalls = MaxCalls /\ pc["job"] = "idle")

C37_OneWriterPerConn == \A h \in Handlers : Cardinality(writing[h]) <= 1

\* C38: on a scheduler that is running, after whatever Starts and Stops, a
\* tick starts the sync job once and no more, and the job does not return as
\* cancelled (it goes on to its quota check and, with quota and a pending
\* stock, to its one provider call).
C38_RestartRunsJobOnce ==
    isRunning =>
        /\ due = 0
        /\ (returned # Nil /\ returned[1].caller = "job"
               => returned[1].err # "cancelled")

\* The versions whose SQL is committed.
CommittedVersions == {committed[i].Version : i \in DOMAIN committed}

\* The versions the running Up has applied are in ascending order.
RunAscending ==
    \A i, j \in DOMAIN up.run : i < j => up.run[i] < up.run[j]

\* No version's SQL was committed twice, whatever the number of runs.
AppliedOnce ==
    \A i, j \in DOMAIN committed :
        committed[i].Version = committed[j].Version => i = j

\* A step in which a migration fails ends the run, and a run that returns
\* nil leaves every migration it loaded recorded.
UpEnds ==
    /\ up'.result = Some("failed") => up'.at = "idle"
    /\ up'.result = Some("nil") =>
         \A i \in DOMAIN up.migrations :
             up.migrations[i].Version \in schema_migrations'

\* C39: Migrator.Up applies the pending migrations in ascending version
\* order, each version at most once across repeated runs; a version is in
\* schema_migrations if and only if its SQL was committed, and a failing
\* migration ends the run so that no later migration is applied.
C39_MigrationsOnceInOrder ==
    /\ [](RunAscending /\ AppliedOnce /\ schema_migrations = CommittedVersions)
    /\ [][UpEnds]_vars

\* A run that has applied two versions on a database where an earlier run
\* had applied another.
C39_Witness ==
    /\ up.at = "loop"
    /\ Len(up.run) = 2
    /\ Len(committed) = 3

\* The lines by which an operator says yes or y, whatever the case and the
\* white space around it.
Consents ==
    {<<"y", "e", "s", "\n">>, <<"y", "\n">>, <<"Y", "\n">>,
     <<" ", "Y", "E", "S", " ", "\n">>, <<"y", "\r", "\n">>}

\* Every price record the seeder's run found is still stored as it was.
RecordsKept ==
    \A s \in DOMAIN seed.before : \A d \in DOMAIN seed.before[s] :
        /\ d \in DOMAIN daily_prices[s]
        /\ daily_prices[s][d] = seed.before[s][d]

\* C40: the seeder deletes the price records it found only when the
\* environment is not production and the operator answered yes or y; in
\* every other run the records it found stay as they were.
C40_DeleteOnlyOnConsent ==
    ~RecordsKept =>
        /\ seed.env # Production
        /\ seed.input # Nil
        /\ seed.input[1] \in Consents

\* Outside production the operator consented and the records found are gone.
C40_Witness ==
    /\ seed.at = "stocks"
    /\ seed.before # <<>>
    /\ \E s \in DOMAIN seed.before : seed.before[s] # <<>>
    /\ \A s \in Symbols : daily_prices[s] = <<>>
    /\ seed.input # Nil

====
